---- MODULE Spec2Model ----
(***************************************************************************)
(* Model of the upload state engine of the binary-uploader server:         *)
(* the files / file_chunks tables, the chunk files on disk, the            *)
(* free-space counter, and the request handlers that act on them           *)
(* (InitUpload, WriteChunk with its fail-recovery hook, DeleteFile).       *)
(* Every database transaction and every filesystem call of a handler is    *)
(* one atomic step, so that concurrent requests interleave between them.   *)
(***************************************************************************)
EXTENDS Integers, FiniteSets, Sequences, TLC

(* ------------------------------ bounds -------------------------------- *)

\* request slots served concurrently by the HTTP server
NumSlots == 2
\* requests accepted in one behaviour
MaxRequests == 3
\* rows the files table ever receives (AUTO_INCREMENT stops there)
MaxFiles == 1
\* largest total_chunks a client declares
MaxChunks == 2
\* buffers a chunk body is streamed in at most
MaxBytes == 1
\* free space found by statfs at start-up
InitialSpace == 4
\* config.WorkerPoolSize: workers of the chunk-delete pool
WorkerPoolSize == 2

FileIds == 1 .. MaxFiles
ChunkIds == 1 .. (MaxFiles * MaxChunks)
Names == {"a"}
Checksums == {"x", "y"}
Sizes == {2}
\* the buffers a body is read in when its content does not matter
AnyBuffers == {<<0>>}

(* ------------------------------ entities ------------------------------ *)

FileStatusInitialized == "INITIALIZED"
FileStatusInProgress == "IN_PROGRESS"
FileStatusFailed == "FAILED"
FileStatusUploaded == "UPLOADED"

FileStatus ==
  {FileStatusInitialized, FileStatusInProgress, FileStatusFailed, FileStatusUploaded}

\* entity.NewFile: a fresh file record; updated_at is set at the insert
NewFile(name, size, checksum, totalChunks) ==
  [name |-> name, size |-> size, checksum |-> checksum,
   status |-> FileStatusInitialized, total |-> totalChunks, uploaded |-> 0,
   updatedAt |-> 0]

VARIABLES
  files,      \* files table: id -> row
  chunks,     \* file_chunks table: id -> row
  nextFileId, \* AUTO_INCREMENT of files
  nextChunkId,\* AUTO_INCREMENT of file_chunks
  dirs,       \* content directories on disk (by file name)
  disk,       \* chunk files on disk: <<name, chunk_number>> -> the bytes of the file
  availableSpace, \* storageRepository.availableSpace
  reqs,       \* slot -> the request it serves and the position of its handler
  started,    \* number of requests accepted so far
  client,     \* the uploading client of the upload scenarios: what it has sent and been answered
  promotions, \* history: file id -> number of its transitions to UPLOADED
  cli,        \* the upload-file command of the command line client: its run so far
  clock       \* the time: now, and when a chunk write was last answered 200 (-1: never)

vars ==
  <<files, chunks, nextFileId, nextChunkId, dirs, disk, availableSpace,
    reqs, started, client, promotions, cli, clock>>

db == <<files, chunks, nextFileId, nextChunkId>>
fs == <<dirs, disk>>
hist == <<client, promotions, cli>>

(* --------------------------- request records -------------------------- *)

Idle ==
  [kind |-> "idle", pc |-> "idle", hpc |-> "idle", name |-> "", fid |-> 0,
   num |-> 0, checksum |-> "", size |-> 0, total |-> 0, reup |-> FALSE,
   fstatus |-> "", cid |-> 0, invalid |-> {}, todo |-> {},
   running |-> {}, workers |-> 0, undeleted |-> {}, listed |-> {},
   cancelled |-> FALSE, disconnected |-> FALSE, midWrite |-> FALSE,
   ucErr |-> "none", result |-> "none", missing |-> {}]

Set(r, rec) == reqs' = [reqs EXCEPT ![r] = rec]

Slots == DOMAIN reqs

InFlight(kind) == {r \in Slots : reqs[r].kind = kind}

Quiescent == \A r \in Slots : reqs[r].kind = "idle"

\* the server hands a new connection the first free slot
Free(r) == reqs[r].kind = "idle" /\ \A s \in Slots : s < r => reqs[s].kind # "idle"

(* ------------------------- database operations ------------------------ *)

\* fileRepository.GetFileByName: the id of the row of that name, 0 for none
GetFileByName(name) ==
  IF \E f \in DOMAIN files : files[f].name = name
  THEN CHOOSE f \in DOMAIN files : files[f].name = name
  ELSE 0

\* fileRepository.GetChunksByFileID
GetChunksByFileID(fileID) ==
  {c \in DOMAIN chunks : chunks[c].parent = fileID}

\* fileRepository.GetChunksByStatus
GetChunksByStatus(fileID, statuses) ==
  {c \in DOMAIN chunks : chunks[c].parent = fileID /\ chunks[c].status \in statuses}

\* fileRepository.GetFileAndChunk, second query: the chunk row of
\* (parent_id, chunk_number), 0 for none
GetChunk(fileID, chunkNumber) ==
  IF \E c \in DOMAIN chunks : chunks[c].parent = fileID /\ chunks[c].num = chunkNumber
  THEN CHOOSE c \in DOMAIN chunks : chunks[c].parent = fileID /\ chunks[c].num = chunkNumber
  ELSE 0

\* fileRepository.UpdateFileStatus: UPDATE files SET status WHERE id = ?
UpdateFileStatus(fs0, id, status) ==
  [f \in DOMAIN fs0 |->
     IF f = id THEN [fs0[f] EXCEPT !.status = status, !.updatedAt = clock.now]
     ELSE fs0[f]]

\* fileRepository.UpdateChunksStatus: UPDATE file_chunks SET status WHERE id IN ?
UpdateChunksStatus(cs0, chunkIDs, status) ==
  [c \in DOMAIN cs0 |->
     IF c \in chunkIDs THEN [cs0[c] EXCEPT !.status = status] ELSE cs0[c]]

\* fileRepository.UpdateFileAndChunkStatus: both updates in one transaction
UpdateFileAndChunkStatus(fileID, chunkID, status) ==
  /\ files' = UpdateFileStatus(files, fileID, status)
  /\ chunks' = UpdateChunksStatus(chunks, {chunkID}, status)

\* an increment applied twice
IncrementUploadedChunksTwice(fs0, id) ==
  [f \in DOMAIN fs0 |->
     IF f = id THEN [fs0[f] EXCEPT !.uploaded = fs0[f].uploaded + 2] ELSE fs0[f]]

\* an increment that leaves updated_at as it was
IncrementUploadedChunksUntimed(fs0, id) ==
  [f \in DOMAIN fs0 |->
     IF f = id THEN [fs0[f] EXCEPT !.uploaded = fs0[f].uploaded + 1] ELSE fs0[f]]

\* fileRepository.IncrementUploadedChunks, the UPDATE, which also sets
\* updated_at
IncrementUploadedChunks(fs0, id) ==
  [f \in DOMAIN fs0 |->
     IF f = id THEN [fs0[f] EXCEPT !.uploaded = fs0[f].uploaded + 1,
                                   !.updatedAt = clock.now]
     ELSE fs0[f]]

\* fileRepository.CreateFileWithChunks: the file row and its total_chunks
\* chunk rows, all INITIALIZED, in one transaction
CreateFileWithChunks(file) ==
  /\ files' = [f \in DOMAIN files \cup {nextFileId} |->
                 IF f = nextFileId THEN [file EXCEPT !.updatedAt = clock.now]
                 ELSE files[f]]
  /\ chunks' = [c \in DOMAIN chunks \cup (nextChunkId .. (nextChunkId + file.total - 1)) |->
                  IF c \in DOMAIN chunks THEN chunks[c]
                  ELSE [parent |-> nextFileId, num |-> c - nextChunkId,
                        status |-> FileStatusInitialized]]
  /\ nextFileId' = nextFileId + 1
  /\ nextChunkId' = nextChunkId + file.total

\* fileRepository.DeleteFileByID: the row goes, and its chunk rows by cascade
DeleteFileByID(fileID) ==
  /\ files' = [f \in DOMAIN files \ {fileID} |-> files[f]]
  /\ chunks' = [c \in {d \in DOMAIN chunks : chunks[d].parent # fileID} |-> chunks[c]]

(* ------------------------- storage operations ------------------------- *)

\* storageRepository.DeleteFile / DeleteChunk: remove the file if it is there
DeleteFile(d0, path) == [p \in DOMAIN d0 \ {path} |-> d0[p]]

\* storageRepository.DeleteDirectory: os.RemoveAll
DeleteDirectory(d0, name) == [p \in {q \in DOMAIN d0 : q[1] # name} |-> d0[p]]

\* storageRepository.UpdateAvailableSpace
UpdateAvailableSpace(space, sizeChange) ==
  IF sizeChange >= 0 THEN space + sizeChange
  ELSE IF -sizeChange > space THEN 0 ELSE space - (-sizeChange)

\* an empty table / an empty disk
Empty == [x \in {} |-> 0]

\* the uploading client before it has sent anything
NoClient ==
  [phase |-> "start", name |-> "", checksum |-> "", size |-> 0, total |-> 0,
   fid |-> 0, sent |-> {}, ok |-> {},
   chunkSize |-> 0, reup |-> FALSE, missing |-> {}, runs |-> 0]

\* no upload-file command is running
NoCli == [pc |-> "off"]

\* the time when the server starts; no chunk write has been answered
NoClock == [now |-> 0, lastDone |-> -1]

Init ==
  /\ files = Empty
  /\ chunks = Empty
  /\ nextFileId = 1
  /\ nextChunkId = 1
  /\ dirs = {}
  /\ disk = Empty
  /\ availableSpace = InitialSpace
  /\ reqs = [r \in 1 .. NumSlots |-> Idle]
  /\ started = 0
  /\ client = NoClient
  /\ promotions = [f \in FileIds |-> 0]
  /\ cli = NoCli
  /\ clock = NoClock

(* ------------------------------ responses ----------------------------- *)

\* the handler answers: the slot keeps the response until it is released
Respond(r, code) == Set(r, [reqs[r] EXCEPT !.pc = "done", !.hpc = "done", !.result = code])

\* the handler and its goroutine have returned: the connection is closed and
\* the slot serves the next request
Close(r) ==
  /\ reqs[r].kind # "idle"
  /\ reqs[r].pc = "done"
  /\ reqs[r].hpc = "done"
  /\ Set(r, Idle)
  /\ UNCHANGED <<db, fs, availableSpace, started, promotions, cli>>

\* a request of any client ends
Release(r) == Close(r) /\ UNCHANGED <<client, clock>>

(* ------------------------------ InitUpload ---------------------------- *)

\* a selection that forgets the chunks never written
InvalidStatusesWrittenOnly == {FileStatusInProgress, FileStatusFailed}

\* the statuses ExecuteInit asks GetChunksByStatus for
InvalidStatuses == {FileStatusInitialized, FileStatusInProgress, FileStatusFailed}

\* POST /files/upload/init/:file_name arrives
AcceptInit(r, name, checksum, size, total, reup) ==
  /\ Free(r)
  /\ Set(r, [Idle EXCEPT !.kind = "init", !.pc = "checkSpace", !.hpc = "wait",
                         !.name = name, !.checksum = checksum, !.size = size,
                         !.total = total, !.reup = reup])
  /\ UNCHANGED <<db, fs, availableSpace, promotions, cli, clock>>

\* sent by any client at any time
StartInit(r, name, checksum, size, total, reup) ==
  /\ started < MaxRequests
  /\ nextFileId + Cardinality(InFlight("init")) <= MaxFiles + 1
  /\ AcceptInit(r, name, checksum, size, total, reup)
  /\ started' = started + 1
  /\ UNCHANGED client

\* an ExecuteInit without the free-space check
ExecuteInitSkipCheckSpace(r) ==
  /\ reqs[r].kind = "init" /\ reqs[r].pc = "checkSpace"
  /\ Set(r, [reqs[r] EXCEPT !.pc = "lookup"])
  /\ UNCHANGED <<db, fs, availableSpace, started, hist, clock>>

\* ExecuteInit: the free-space check
ExecuteInitCheckSpace(r) ==
  /\ reqs[r].kind = "init" /\ reqs[r].pc = "checkSpace"
  /\ IF availableSpace < reqs[r].size
     THEN Respond(r, "FILE_STORAGE")
     ELSE Set(r, [reqs[r] EXCEPT !.pc = "lookup"])
  /\ UNCHANGED <<db, fs, availableSpace, started, hist, clock>>

\* a lookup that takes any row of the name for the same file
ExecuteInitLookupAnyContent(r) ==
  /\ reqs[r].kind = "init" /\ reqs[r].pc = "lookup"
  /\ LET q == reqs[r]
         id == GetFileByName(q.name)
     IN IF id = 0
        THEN Set(r, [q EXCEPT !.pc = "create"])
        ELSE LET existingFile == files[id]
             IN IF existingFile.status = FileStatusInitialized
                THEN Set(r, [q EXCEPT !.pc = "mkdir", !.fid = id])
                ELSE IF ~q.reup THEN Respond(r, "INVALID_INPUT")
                ELSE IF existingFile.status = FileStatusUploaded
                THEN Respond(r, "INVALID_INPUT")
                ELSE Set(r, [q EXCEPT !.pc = "selectInvalid", !.fid = id,
                                      !.fstatus = existingFile.status])
  /\ UNCHANGED <<db, fs, availableSpace, started, hist, clock>>

\* ExecuteInit: GetFileByName and the decisions taken on the row it returns
ExecuteInitLookup(r) ==
  /\ reqs[r].kind = "init" /\ reqs[r].pc = "lookup"
  /\ LET q == reqs[r]
         id == GetFileByName(q.name)
     IN IF id = 0
        THEN Set(r, [q EXCEPT !.pc = "create"])
        ELSE LET existingFile == files[id]
                 isSameFile == existingFile.checksum = q.checksum
                                 /\ existingFile.size = q.size
             IN IF ~isSameFile THEN Respond(r, "INVALID_INPUT")
                ELSE IF existingFile.status = FileStatusInitialized
                THEN Set(r, [q EXCEPT !.pc = "mkdir", !.fid = id])
                ELSE IF ~q.reup THEN Respond(r, "INVALID_INPUT")
                ELSE IF existingFile.status = FileStatusUploaded
                THEN Respond(r, "INVALID_INPUT")
                ELSE Set(r, [q EXCEPT !.pc = "selectInvalid", !.fid = id,
                                      !.fstatus = existingFile.status])
  /\ UNCHANGED <<db, fs, availableSpace, started, hist, clock>>

\* a CreateFileWithChunks on a table without the unique index
ExecuteInitCreateUnchecked(r) ==
  /\ reqs[r].kind = "init" /\ reqs[r].pc = "create"
  /\ LET q == reqs[r]
     IN /\ CreateFileWithChunks(NewFile(q.name, q.size, q.checksum, q.total))
        /\ Set(r, [q EXCEPT !.pc = "mkdir", !.fid = nextFileId])
  /\ UNCHANGED <<fs, availableSpace, started, hist, clock>>

\* ExecuteInit: CreateFileWithChunks; the unique index on files.name refuses
\* a second row of the same name
ExecuteInitCreate(r) ==
  /\ reqs[r].kind = "init" /\ reqs[r].pc = "create"
  /\ LET q == reqs[r]
     IN IF GetFileByName(q.name) # 0
        THEN /\ Respond(r, "DATABASE")
             /\ UNCHANGED db
        ELSE /\ CreateFileWithChunks(NewFile(q.name, q.size, q.checksum, q.total))
             /\ Set(r, [q EXCEPT !.pc = "mkdir", !.fid = nextFileId])
  /\ UNCHANGED <<fs, availableSpace, started, hist, clock>>

\* ExecuteInit: CreateDirectory, then return (file, nil)
ExecuteInitCreateDirectory(r) ==
  /\ reqs[r].kind = "init" /\ reqs[r].pc = "mkdir"
  /\ dirs' = dirs \cup {reqs[r].name}
  /\ Respond(r, "OK")
  /\ UNCHANGED <<db, disk, availableSpace, started, hist, clock>>

\* ExecuteInit, resume: GetChunksByStatus selects the chunks to send again
ExecuteInitSelectInvalid(r) ==
  /\ reqs[r].kind = "init" /\ reqs[r].pc = "selectInvalid"
  /\ LET invalidChunks == GetChunksByStatus(reqs[r].fid, InvalidStatuses)
         rows == {[id |-> c, num |-> chunks[c].num, st |-> chunks[c].status] :
                    c \in invalidChunks}
     IN Set(r, [reqs[r] EXCEPT !.pc = "deleteStray", !.invalid = rows,
                               !.todo = {x.num : x \in rows}])
  /\ UNCHANGED <<db, fs, availableSpace, started, hist, clock>>

\* ExecuteInit, resume: the loop deleting the stray bytes, one chunk a step
ExecuteInitDeleteStray(r) ==
  /\ reqs[r].kind = "init" /\ reqs[r].pc = "deleteStray"
  /\ LET q == reqs[r]
     IN IF q.todo = {}
        THEN /\ Set(r, [q EXCEPT !.pc = "reset"])
             /\ UNCHANGED disk
        ELSE LET n == CHOOSE m \in q.todo : \A k \in q.todo : m <= k
             IN /\ disk' = DeleteFile(disk, <<q.name, n>>)
                /\ Set(r, [q EXCEPT !.todo = q.todo \ {n}])
  /\ UNCHANGED <<db, dirs, availableSpace, started, hist, clock>>

\* ExecuteInit, resume: UpdateChunksStatus(chunkIDsToUpdate, INITIALIZED)
ExecuteInitReset(r) ==
  /\ reqs[r].kind = "init" /\ reqs[r].pc = "reset"
  /\ LET chunkIDsToUpdate ==
           {x.id : x \in {y \in reqs[r].invalid : y.st # FileStatusInitialized}}
     IN chunks' = UpdateChunksStatus(chunks, chunkIDsToUpdate, FileStatusInitialized)
  /\ Set(r, [reqs[r] EXCEPT !.pc = "reserve"])
  /\ UNCHANGED <<files, nextFileId, nextChunkId, fs, availableSpace, started, hist, clock>>

\* ExecuteInit, resume: UpdateAvailableSpace(int64(TotalSize)) and the
\* response, whose missing_chunk_info lists the chunk numbers selected
ExecuteInitReserve(r) ==
  /\ reqs[r].kind = "init" /\ reqs[r].pc = "reserve"
  /\ availableSpace' = UpdateAvailableSpace(availableSpace, reqs[r].size)
  /\ Set(r, [reqs[r] EXCEPT !.pc = "done", !.hpc = "done", !.result = "OK",
                            !.missing = {x.num : x \in reqs[r].invalid}])
  /\ UNCHANGED <<db, fs, started, hist, clock>>

(* ------------------------------ WriteChunk ---------------------------- *)

\* POST /files/upload/:file_id/:chunk_number arrives; FileUploadHandler.Execute
\* starts the use case in a goroutine and waits in its select
AcceptWrite(r, fileID, chunkNumber) ==
  /\ Free(r)
  /\ Set(r, [Idle EXCEPT !.kind = "write", !.pc = "getFile", !.hpc = "select",
                         !.fid = fileID, !.num = chunkNumber])
  /\ UNCHANGED <<db, fs, availableSpace, promotions, cli, clock>>

\* sent by any client at any time
StartWrite(r, fileID, chunkNumber) ==
  /\ started < MaxRequests
  /\ AcceptWrite(r, fileID, chunkNumber)
  /\ started' = started + 1
  /\ UNCHANGED client

\* the client closes the connection while its chunk request or its delete
\* request is being served
ClientDisconnect(r) ==
  /\ reqs[r].kind \in {"write", "delete"}
  /\ reqs[r].hpc # "done"
  /\ ~reqs[r].disconnected
  /\ Set(r, [reqs[r] EXCEPT !.disconnected = TRUE,
                            !.midWrite = reqs[r].pc \in {"mkdirAll", "create", "stream"}])
  /\ UNCHANGED <<db, fs, availableSpace, started, hist, clock>>

\* the use case returns: its error (or nil) goes to ucErrChan
UcReturn(r, err) == Set(r, [reqs[r] EXCEPT !.pc = "done", !.ucErr = err])

\* a guard that looks at the file's status only
WriteAllowedByFile(fileStatus, chunkStatus) ==
  fileStatus \in {FileStatusInitialized, FileStatusInProgress}

\* the guard of fileUploadUseCase.Execute on the statuses it has read
WriteAllowed(fileStatus, chunkStatus) ==
  ~( (fileStatus # FileStatusInitialized /\ fileStatus # FileStatusInProgress)
     \/ chunkStatus # FileStatusInitialized )

\* Execute: GetFileAndChunk, the query of the file row
ExecuteGetFile(r) ==
  /\ reqs[r].kind = "write" /\ reqs[r].pc = "getFile"
  /\ LET q == reqs[r]
     IN IF q.cancelled THEN UcReturn(r, "DATABASE")
        ELSE IF q.fid \notin DOMAIN files THEN UcReturn(r, "NOT_FOUND")
        ELSE Set(r, [q EXCEPT !.pc = "getChunk", !.fstatus = files[q.fid].status,
                              !.name = files[q.fid].name])
  /\ UNCHANGED <<db, fs, availableSpace, started, hist, clock>>

\* Execute: GetFileAndChunk, the query of the chunk row, and the state guard
ExecuteGetChunk(r) ==
  /\ reqs[r].kind = "write" /\ reqs[r].pc = "getChunk"
  /\ LET q == reqs[r]
         c == GetChunk(q.fid, q.num)
     IN IF q.cancelled THEN UcReturn(r, "DATABASE")
        ELSE IF c = 0 THEN UcReturn(r, "NOT_FOUND")
        ELSE IF ~WriteAllowed(q.fstatus, chunks[c].status)
        THEN UcReturn(r, "INVALID_INPUT")
        ELSE Set(r, [q EXCEPT !.pc = "promote", !.cid = c])
  /\ UNCHANGED <<db, fs, availableSpace, started, hist, clock>>

\* Execute: the promotion to IN_PROGRESS, of file and chunk when the file
\* was read INITIALIZED, of the chunk alone otherwise
ExecutePromote(r) ==
  /\ reqs[r].kind = "write" /\ reqs[r].pc = "promote"
  /\ LET q == reqs[r]
     IN IF q.cancelled
        THEN /\ UcReturn(r, "DATABASE")
             /\ UNCHANGED <<files, chunks>>
        ELSE /\ IF q.fstatus = FileStatusInitialized
                THEN UpdateFileAndChunkStatus(q.fid, q.cid, FileStatusInProgress)
                ELSE /\ chunks' = UpdateChunksStatus(chunks, {q.cid}, FileStatusInProgress)
                     /\ UNCHANGED files
             /\ Set(r, [q EXCEPT !.pc = "mkdirAll"])
  /\ UNCHANGED <<nextFileId, nextChunkId, fs, availableSpace, started, hist, clock>>

\* storageRepository.WriteChunk: os.MkdirAll of the chunk's directory
WriteChunkMkdirAll(r) ==
  /\ reqs[r].kind = "write" /\ reqs[r].pc = "mkdirAll"
  /\ dirs' = dirs \cup {reqs[r].name}
  /\ Set(r, [reqs[r] EXCEPT !.pc = "create"])
  /\ UNCHANGED <<db, disk, availableSpace, started, hist, clock>>

\* storageRepository.WriteChunk: os.Create truncates or creates the chunk
\* file; it fails when the directory has been removed meanwhile
WriteChunkCreate(r) ==
  /\ reqs[r].kind = "write" /\ reqs[r].pc = "create"
  /\ LET q == reqs[r]
         path == <<q.name, q.num>>
     IN IF q.name \notin dirs
        THEN /\ UcReturn(r, "FILE_STORAGE")
             /\ UNCHANGED disk
        ELSE /\ disk' = [p \in DOMAIN disk \cup {path} |-> IF p = path THEN <<>> ELSE disk[p]]
             /\ Set(r, [q EXCEPT !.pc = "stream"])
  /\ UNCHANGED <<db, dirs, availableSpace, started, hist, clock>>

\* storageRepository.WriteChunk, one turn of the copy loop: the context is
\* done, or the read fails, or the body has ended (n = 0), or the buffer
\* that was read is written to the file
WriteChunkLoop(r, outcome, buffer) ==
  /\ reqs[r].kind = "write" /\ reqs[r].pc = "stream"
  /\ LET q == reqs[r]
         path == <<q.name, q.num>>
     IN IF q.cancelled
        THEN /\ outcome = "eof"
             /\ UcReturn(r, "CONTEXT")
             /\ UNCHANGED disk
        ELSE IF outcome = "error"
        THEN /\ UcReturn(r, "FILE_STORAGE")
             /\ UNCHANGED disk
        ELSE IF outcome = "eof"
        THEN /\ Set(r, [q EXCEPT !.pc = "markUploaded"])
             /\ UNCHANGED disk
        ELSE /\ path \in DOMAIN disk
             /\ Len(disk[path]) < MaxBytes
             /\ disk' = [disk EXCEPT ![path] = @ \o buffer]
             /\ UNCHANGED reqs
  /\ UNCHANGED <<db, dirs, availableSpace, started, hist, clock>>

\* Execute: UpdateChunksStatus(chunk.ID, UPLOADED)
ExecuteMarkUploaded(r) ==
  /\ reqs[r].kind = "write" /\ reqs[r].pc = "markUploaded"
  /\ IF reqs[r].cancelled
     THEN /\ UcReturn(r, "DATABASE")
          /\ UNCHANGED chunks
     ELSE /\ chunks' = UpdateChunksStatus(chunks, {reqs[r].cid}, FileStatusUploaded)
          /\ Set(r, [reqs[r] EXCEPT !.pc = "increment"])
  /\ UNCHANGED <<files, nextFileId, nextChunkId, fs, availableSpace, started, hist, clock>>

\* a comparison that never finds the file complete
AllChunksUploadedNever(uploadedChunks, totalChunks) == uploadedChunks > totalChunks

\* a comparison with the counter read before the increment
AllChunksUploadedStale(uploadedChunks, totalChunks) == uploadedChunks - 1 = totalChunks

\* Execute: "if uploadedChunks == totalChunks" on the values read back
AllChunksUploaded(uploadedChunks, totalChunks) == uploadedChunks = totalChunks

\* Execute: IncrementUploadedChunks, the UPDATE and the read-back in one
\* transaction; the read-back finds no row when the file has been deleted
ExecuteIncrement(r) ==
  /\ reqs[r].kind = "write" /\ reqs[r].pc = "increment"
  /\ LET q == reqs[r]
     IN IF q.cancelled \/ q.fid \notin DOMAIN files
        THEN /\ UcReturn(r, "DATABASE")
             /\ UNCHANGED files
        ELSE /\ files' = IncrementUploadedChunks(files, q.fid)
             /\ IF AllChunksUploaded(files'[q.fid].uploaded, files'[q.fid].total)
                THEN Set(r, [q EXCEPT !.pc = "promoteFile"])
                ELSE UcReturn(r, "nil")
  /\ UNCHANGED <<chunks, nextFileId, nextChunkId, fs, availableSpace, started, hist, clock>>

\* Execute: UpdateFileStatus(file.ID, UPLOADED) after the last chunk
ExecutePromoteFile(r) ==
  /\ reqs[r].kind = "write" /\ reqs[r].pc = "promoteFile"
  /\ LET q == reqs[r]
     IN IF q.cancelled
        THEN /\ UcReturn(r, "DATABASE")
             /\ UNCHANGED <<files, promotions>>
        ELSE /\ files' = UpdateFileStatus(files, q.fid, FileStatusUploaded)
             /\ promotions' =
                  IF q.fid \in DOMAIN files /\ files[q.fid].status # FileStatusUploaded
                  THEN [promotions EXCEPT ![q.fid] = @ + 1] ELSE promotions
             /\ UcReturn(r, "nil")
  /\ UNCHANGED <<chunks, nextFileId, nextChunkId, fs, availableSpace, started, client, cli, clock>>

\* fileUploadUseCase.ExecuteFailRecovery: the handler's chunk_number goes
\* to UpdateFileAndChunkStatus as the chunk id
ExecuteFailRecovery(fileID, chunkID) ==
  UpdateFileAndChunkStatus(fileID, chunkID, FileStatusFailed)

\* FileUploadHandler.Execute, select: the client is gone; cancel the use
\* case's context
HandlerClientGone(r) ==
  /\ reqs[r].kind = "write" /\ reqs[r].hpc = "select"
  /\ reqs[r].disconnected
  /\ Set(r, [reqs[r] EXCEPT !.hpc = "recoverBackground", !.cancelled = TRUE])
  /\ UNCHANGED <<db, fs, availableSpace, started, hist, clock>>

\* FileUploadHandler.Execute, after cancel(): ExecuteFailRecovery under
\* context.Background(); the handler returns without a response
HandlerRecoverBackground(r) ==
  /\ reqs[r].kind = "write" /\ reqs[r].hpc = "recoverBackground"
  /\ ExecuteFailRecovery(reqs[r].fid, reqs[r].num)
  /\ Set(r, [reqs[r] EXCEPT !.hpc = "done", !.result = "GONE"])
  /\ UNCHANGED <<nextFileId, nextChunkId, fs, availableSpace, started, hist, clock>>

\* FileUploadHandler.Execute, select: the use case has returned; nil is
\* answered OK, an error leads to fail recovery
HandlerReceive(r) ==
  /\ reqs[r].kind = "write" /\ reqs[r].hpc = "select"
  /\ reqs[r].ucErr # "none"
  /\ IF reqs[r].ucErr = "nil"
     THEN Set(r, [reqs[r] EXCEPT !.hpc = "done", !.result = "OK", !.cancelled = TRUE])
     ELSE Set(r, [reqs[r] EXCEPT !.hpc = "recoverRequest"])
  /\ UNCHANGED <<db, fs, availableSpace, started, hist, clock>>

\* FileUploadHandler.Execute, the error branch: ExecuteFailRecovery under
\* the request's context (which a client that has gone has cancelled), then
\* the error response
HandlerRecoverRequest(r) ==
  /\ reqs[r].kind = "write" /\ reqs[r].hpc = "recoverRequest"
  /\ IF reqs[r].disconnected
     THEN /\ UNCHANGED <<files, chunks>>
          /\ Set(r, [reqs[r] EXCEPT !.hpc = "done", !.result = "DATABASE"])
     ELSE /\ ExecuteFailRecovery(reqs[r].fid, reqs[r].num)
          /\ Set(r, [reqs[r] EXCEPT !.hpc = "done", !.result = reqs[r].ucErr])
  /\ UNCHANGED <<nextFileId, nextChunkId, fs, availableSpace, started, hist, clock>>

(* ------------------------------ DeleteFile ---------------------------- *)

\* DELETE /files/:file_name arrives; FileDeleteHandler.Execute runs the use
\* case under the request's context
AcceptDelete(r, name) ==
  /\ Free(r)
  /\ Set(r, [Idle EXCEPT !.kind = "delete", !.pc = "lookup", !.hpc = "wait",
                         !.name = name])
  /\ UNCHANGED <<db, fs, availableSpace, hist, clock>>

\* sent by any client at any time
StartDelete(r, name) ==
  /\ started < MaxRequests
  /\ AcceptDelete(r, name)
  /\ started' = started + 1

\* a lookup that lets a missing file through as deleted
DeleteLookupLenient(r) ==
  /\ reqs[r].kind = "delete" /\ reqs[r].pc = "lookup"
  /\ LET id == GetFileByName(reqs[r].name)
     IN IF reqs[r].disconnected THEN Respond(r, "DATABASE")
        ELSE IF id = 0 THEN Respond(r, "OK")
        ELSE Set(r, [reqs[r] EXCEPT !.pc = "getChunks", !.fid = id,
                                    !.size = files[id].size])
  /\ UNCHANGED <<db, fs, availableSpace, started, hist, clock>>

\* fileDeleteUseCase.Execute: GetFileByName
DeleteLookup(r) ==
  /\ reqs[r].kind = "delete" /\ reqs[r].pc = "lookup"
  /\ LET id == GetFileByName(reqs[r].name)
     IN IF reqs[r].disconnected THEN Respond(r, "DATABASE")
        ELSE IF id = 0 THEN Respond(r, "NOT_FOUND")
        ELSE Set(r, [reqs[r] EXCEPT !.pc = "getChunks", !.fid = id,
                                    !.size = files[id].size])
  /\ UNCHANGED <<db, fs, availableSpace, started, hist, clock>>

\* fileDeleteUseCase.Execute: GetChunksByFileID, then NewWorkerPool and
\* Start: WorkerPoolSize workers wait for tasks
DeleteGetChunks(r) ==
  /\ reqs[r].kind = "delete" /\ reqs[r].pc = "getChunks"
  /\ IF reqs[r].disconnected THEN Respond(r, "DATABASE")
     ELSE Set(r, [reqs[r] EXCEPT !.pc = "deleteChunks", !.workers = WorkerPoolSize,
                    !.todo = {chunks[c].num : c \in GetChunksByFileID(reqs[r].fid)}])
  /\ UNCHANGED <<db, fs, availableSpace, started, hist, clock>>

\* WorkerPool.Submit of the next chunk's task: the send on the unbuffered
\* task channel completes when an idle worker receives it
DeleteSubmit(r) ==
  /\ reqs[r].kind = "delete" /\ reqs[r].pc = "deleteChunks"
  /\ reqs[r].todo # {}
  /\ Cardinality(reqs[r].running) < reqs[r].workers
  /\ LET n == CHOOSE m \in reqs[r].todo : \A k \in reqs[r].todo : m <= k
     IN Set(r, [reqs[r] EXCEPT !.todo = @ \ {n}, !.running = @ \cup {n}])
  /\ UNCHANGED <<db, fs, availableSpace, started, hist, clock>>

\* a task that hands the error of DeleteChunk to the use case
DeleteChunkTaskSurfaced(r, n, removed) ==
  /\ reqs[r].kind = "delete" /\ reqs[r].pc = "deleteChunks"
  /\ n \in reqs[r].running
  /\ ~removed => <<reqs[r].name, n>> \in DOMAIN disk
  /\ disk' = IF removed THEN DeleteFile(disk, <<reqs[r].name, n>>) ELSE disk
  /\ IF removed
     THEN Set(r, [reqs[r] EXCEPT !.running = @ \ {n}])
     ELSE Respond(r, "FILE_STORAGE")
  /\ UNCHANGED <<db, dirs, availableSpace, started, hist, clock>>

\* a pool worker runs the task it holds: DeleteChunk of one chunk file; a
\* failed os.Remove leaves the file, and the task returns nil either way
\* (undeleted records the chunks whose error was dropped)
DeleteChunkTask(r, n, removed) ==
  /\ reqs[r].kind = "delete" /\ reqs[r].pc = "deleteChunks"
  /\ n \in reqs[r].running
  /\ ~removed => <<reqs[r].name, n>> \in DOMAIN disk
  /\ disk' = IF removed THEN DeleteFile(disk, <<reqs[r].name, n>>) ELSE disk
  /\ Set(r, [reqs[r] EXCEPT !.running = @ \ {n},
                            !.undeleted = IF removed THEN @ ELSE @ \cup {n}])
  /\ UNCHANGED <<db, dirs, availableSpace, started, hist, clock>>

\* an idle pool worker takes the ctx.Done() case of its select and returns
DeleteWorkerExit(r) ==
  /\ reqs[r].kind = "delete" /\ reqs[r].pc = "deleteChunks"
  /\ reqs[r].disconnected
  /\ Cardinality(reqs[r].running) < reqs[r].workers
  /\ Set(r, [reqs[r] EXCEPT !.workers = @ - 1])
  /\ UNCHANGED <<db, fs, availableSpace, started, hist, clock>>

\* a directory removal that does not wait for the tasks in the workers' hands
DeleteDirectoryStepEarly(r, removed) ==
  /\ reqs[r].kind = "delete" /\ reqs[r].pc = "deleteChunks"
  /\ reqs[r].todo = {}
  /\ ~removed => reqs[r].name \in dirs
  /\ IF removed
     THEN /\ dirs' = dirs \ {reqs[r].name}
          /\ disk' = DeleteDirectory(disk, reqs[r].name)
          /\ Set(r, [reqs[r] EXCEPT !.pc = "deleteRow", !.workers = 0])
     ELSE /\ UNCHANGED <<dirs, disk>>
          /\ Respond(r, "FILE_STORAGE")
  /\ UNCHANGED <<db, availableSpace, started, hist, clock>>

\* fileDeleteUseCase.Execute: wp.Wait() once every task is submitted (the
\* workers finish their tasks and are joined), then DeleteDirectory
DeleteDirectoryStep(r, removed) ==
  /\ reqs[r].kind = "delete" /\ reqs[r].pc = "deleteChunks"
  /\ reqs[r].todo = {}
  /\ reqs[r].running = {}
  /\ ~removed => reqs[r].name \in dirs
  /\ IF removed
     THEN /\ dirs' = dirs \ {reqs[r].name}
          /\ disk' = DeleteDirectory(disk, reqs[r].name)
          /\ Set(r, [reqs[r] EXCEPT !.pc = "deleteRow", !.workers = 0])
     ELSE /\ UNCHANGED <<dirs, disk>>
          /\ Respond(r, "FILE_STORAGE")
  /\ UNCHANGED <<db, availableSpace, started, hist, clock>>

\* fileDeleteUseCase.Execute: DeleteFileByID, which fails under a cancelled
\* context
DeleteRow(r) ==
  /\ reqs[r].kind = "delete" /\ reqs[r].pc = "deleteRow"
  /\ IF reqs[r].disconnected
     THEN /\ Respond(r, "DATABASE")
          /\ UNCHANGED <<files, chunks>>
     ELSE /\ DeleteFileByID(reqs[r].fid)
          /\ Set(r, [reqs[r] EXCEPT !.pc = "credit"])
  /\ UNCHANGED <<nextFileId, nextChunkId, fs, availableSpace, started, hist, clock>>

\* fileDeleteUseCase.Execute: UpdateAvailableSpace(int64(file.Size)), return nil
DeleteCredit(r) ==
  /\ reqs[r].kind = "delete" /\ reqs[r].pc = "credit"
  /\ availableSpace' = UpdateAvailableSpace(availableSpace, reqs[r].size)
  /\ Respond(r, "OK")
  /\ UNCHANGED <<db, fs, started, hist, clock>>

(* ------------------------------ ListFiles ----------------------------- *)

\* a listing that forgets the status
GetAllFileNames == {files[f].name : f \in DOMAIN files}

\* fileRepository.GetFileNames: the names of the rows WHERE status = UPLOADED
GetFileNames ==
  {files[f].name : f \in {g \in DOMAIN files : files[g].status = FileStatusUploaded}}

\* GET /files arrives
AcceptList(r) ==
  /\ Free(r)
  /\ Set(r, [Idle EXCEPT !.kind = "list", !.pc = "query", !.hpc = "wait"])
  /\ UNCHANGED <<db, fs, availableSpace, hist, clock>>

\* sent by any client at any time
StartList(r) ==
  /\ started < MaxRequests
  /\ AcceptList(r)
  /\ started' = started + 1

\* FileListHandler.Execute: the use case's one query, and the response
ListQuery(r) ==
  /\ reqs[r].kind = "list" /\ reqs[r].pc = "query"
  /\ Set(r, [reqs[r] EXCEPT !.pc = "done", !.hpc = "done", !.result = "OK",
                            !.listed = GetFileNames])
  /\ UNCHANGED <<db, fs, availableSpace, started, hist, clock>>

(* --------------------------- upload scenarios ------------------------- *)

\* the file the client uploads
ClientFile == [name |-> "a", checksum |-> "x", size |-> 2]

\* the chunk numbers of the client's file
ClientChunks == 0 .. (client.total - 1)

\* the client starts the upload of a file: InitUpload without is_reupload
ClientInit(r, name, checksum, size, total) ==
  /\ client.phase = "start"
  /\ AcceptInit(r, name, checksum, size, total, FALSE)
  /\ client' = [client EXCEPT !.phase = "init", !.name = name, !.checksum = checksum,
                              !.size = size, !.total = total]
  /\ UNCHANGED started

\* a chunk worker of the client sends chunk n: each chunk is in flight at
\* most once, and is sent again only after a request for it has failed
ClientSend(r, n) ==
  /\ client.phase = "upload"
  /\ n \in ClientChunks \ client.ok
  /\ \A s \in Slots : ~(reqs[s].kind = "write" /\ reqs[s].num = n)
  /\ AcceptWrite(r, client.fid, n)
  /\ client' = [client EXCEPT !.sent = @ \cup {n}]
  /\ UNCHANGED started

\* a request of the client ends; the client, while it lives, notes the
\* answer: the file id of its init, the chunk of a write answered 200
ClientReceive(r) ==
  /\ Close(r)
  /\ UNCHANGED clock
  /\ LET q == reqs[r]
     IN client' =
          IF q.kind = "init" /\ q.result = "OK" /\ client.phase = "init"
          THEN [client EXCEPT !.phase = "upload", !.fid = q.fid]
          ELSE IF q.kind = "init" /\ q.result = "OK" /\ client.phase = "resume"
          THEN [client EXCEPT !.phase = "reupload", !.sent = {}]
          ELSE IF q.kind = "write" /\ q.result = "OK" /\ client.phase = "upload"
          THEN [client EXCEPT !.ok = @ \cup {q.num}]
          ELSE client

\* the client is killed: every connection it holds is closed
ClientKill ==
  /\ client.phase = "upload"
  /\ client' = [client EXCEPT !.phase = "killed"]
  /\ reqs' = [s \in Slots |->
                IF reqs[s].kind = "write" /\ reqs[s].hpc # "done" /\ ~reqs[s].disconnected
                THEN [reqs[s] EXCEPT !.disconnected = TRUE,
                                     !.midWrite = reqs[s].pc \in {"mkdirAll", "create", "stream"}]
                ELSE reqs[s]]
  /\ UNCHANGED <<db, fs, availableSpace, started, promotions, cli, clock>>

\* the client is run again once the server has finished with the old
\* connections: InitUpload of the same file with is_reupload = true
ClientResume(r) ==
  /\ client.phase = "killed"
  /\ Quiescent
  /\ AcceptInit(r, client.name, client.checksum, client.size, client.total, TRUE)
  /\ client' = [client EXCEPT !.phase = "resume"]
  /\ UNCHANGED started

\* the chunks the first run had not been answered 200 for
Remaining == ClientChunks \ client.ok

\* the second run sends each remaining chunk once
ClientResend(r, n) ==
  /\ client.phase = "reupload"
  /\ n \in Remaining \ client.sent
  /\ AcceptWrite(r, client.fid, n)
  /\ client' = [client EXCEPT !.sent = @ \cup {n}]
  /\ UNCHANGED started

(* ---------------------------- specification --------------------------- *)

\* the steps of the handlers, whoever sent the request
InitStep(r) ==
  \/ ExecuteInitCheckSpace(r)
  \/ ExecuteInitLookup(r)
  \/ ExecuteInitCreate(r)
  \/ ExecuteInitCreateDirectory(r)

ResumeStep(r) ==
  \/ ExecuteInitSelectInvalid(r)
  \/ ExecuteInitDeleteStray(r)
  \/ ExecuteInitReset(r)
  \/ ExecuteInitReserve(r)

WriteStep(r) ==
  \/ ExecuteGetFile(r)
  \/ ExecuteGetChunk(r)
  \/ ExecutePromote(r)
  \/ WriteChunkMkdirAll(r)
  \/ WriteChunkCreate(r)
  \/ ExecuteMarkUploaded(r)
  \/ ExecuteIncrement(r)
  \/ ExecutePromoteFile(r)
  \/ HandlerClientGone(r)
  \/ HandlerRecoverBackground(r)
  \/ HandlerReceive(r)
  \/ HandlerRecoverRequest(r)

\* what a turn of the copy loop may meet: the read of the body may fail at
\* any time
StreamStep(r) ==
  \E outcome \in {"error", "eof", "write"}, buffer \in AnyBuffers :
    WriteChunkLoop(r, outcome, buffer)

\* the same on a sound disk and network: the read of the body fails only
\* when the client has closed the connection
SoundStreamStep(r) ==
  \E outcome \in {"error", "eof", "write"}, buffer \in AnyBuffers :
    /\ outcome = "error" => reqs[r].disconnected
    /\ WriteChunkLoop(r, outcome, buffer)

DeleteStep(r) ==
  \/ DeleteLookup(r)
  \/ DeleteGetChunks(r)
  \/ DeleteSubmit(r)
  \/ \E n \in 0 .. (MaxChunks - 1), removed \in BOOLEAN : DeleteChunkTask(r, n, removed)
  \/ DeleteWorkerExit(r)
  \/ \E removed \in BOOLEAN : DeleteDirectoryStep(r, removed)
  \/ DeleteRow(r)
  \/ DeleteCredit(r)

\* any client sends any request
Accept(r) ==
  \/ \E name \in Names, checksum \in Checksums, size \in Sizes,
        total \in 1 .. MaxChunks, reup \in BOOLEAN :
       StartInit(r, name, checksum, size, total, reup)
  \/ \E fileID \in FileIds, chunkNumber \in 0 .. MaxChunks :
       StartWrite(r, fileID, chunkNumber)
  \/ \E name \in Names : StartDelete(r, name)
  \/ StartList(r)

Next ==
  \E r \in 1 .. NumSlots :
    \/ Accept(r)
    \/ ListQuery(r)
    \/ InitStep(r)
    \/ ResumeStep(r)
    \/ WriteStep(r)
    \/ StreamStep(r)
    \/ ClientDisconnect(r)
    \/ DeleteStep(r)
    \/ Release(r)

Spec == Init /\ [][Next]_vars

\* the client opens its upload
ClientOpen(r) ==
  \E total \in 1 .. MaxChunks :
    ClientInit(r, ClientFile.name, ClientFile.checksum, ClientFile.size, total)

\* the list-files command, run at any time
ClientList(r) == AcceptList(r) /\ UNCHANGED started

\* a fresh upload by one client: init, then the chunks by concurrent workers
NextRace ==
  \E r \in 1 .. NumSlots :
    \/ ClientOpen(r)
    \/ \E n \in 0 .. (MaxChunks - 1) : ClientSend(r, n)
    \/ ClientReceive(r)
    \/ ClientList(r)
    \/ ListQuery(r)
    \/ InitStep(r)
    \/ WriteStep(r)
    \/ StreamStep(r)
    \/ ClientDisconnect(r)

SpecRace == Init /\ [][NextRace]_vars

\* an upload that is interrupted and resumed, with nothing failing but the
\* client
NextResume ==
  \/ ClientKill
  \/ \E r \in 1 .. NumSlots :
       \/ ClientOpen(r)
       \/ \E n \in 0 .. (MaxChunks - 1) : ClientSend(r, n)
       \/ ClientReceive(r)
       \/ ClientResume(r)
       \/ \E n \in 0 .. (MaxChunks - 1) : ClientResend(r, n)
       \/ InitStep(r)
       \/ ResumeStep(r)
       \/ WriteStep(r)
       \/ SoundStreamStep(r)

SpecResume == Init /\ [][NextResume]_vars

\* the files of the admission scenario: two names, each file larger than
\* half of the space the accountant is seeded with, or larger than all of it
AdmitNames == {"a", "b"}

AdmitSizes == {3, InitialSpace + 1}

\* the number of file rows the admission scenario creates
MaxAdmitted == 2

\* a client asks to upload a new file
AdmitInit(r) ==
  /\ nextFileId + Cardinality(InFlight("init")) <= MaxAdmitted
  /\ \E name \in AdmitNames, size \in AdmitSizes :
       AcceptInit(r, name, "x", size, 1, FALSE)
  /\ UNCHANGED <<started, client>>

\* a client asks to delete a file
AdmitDelete(r) ==
  /\ \E name \in AdmitNames : AcceptDelete(r, name)
  /\ UNCHANGED started

\* concurrent InitUpload and DeleteFile requests, and nothing else
NextAdmit ==
  \E r \in 1 .. NumSlots :
    \/ AdmitInit(r)
    \/ AdmitDelete(r)
    \/ InitStep(r)
    \/ DeleteStep(r)
    \/ ClientDisconnect(r)
    \/ Release(r)

SpecAdmit == Init /\ [][NextAdmit]_vars

\* a client starts the upload of one of the two names, one chunk each
TwoInit(r) ==
  /\ started < MaxRequests
  /\ nextFileId + Cardinality(InFlight("init")) <= MaxAdmitted
  /\ \E name \in AdmitNames : AcceptInit(r, name, "x", 2, 1, FALSE)
  /\ started' = started + 1
  /\ UNCHANGED client

\* a chunk request for one of the files of the admission scenario
AdmitWrite(r) ==
  \E fileID \in 1 .. MaxAdmitted, chunkNumber \in 0 .. MaxChunks :
    StartWrite(r, fileID, chunkNumber)

\* two uploads side by side: InitUpload of two names and chunk requests
\* for either file
NextTwoFiles ==
  \E r \in 1 .. NumSlots :
    \/ TwoInit(r)
    \/ AdmitWrite(r)
    \/ InitStep(r)
    \/ WriteStep(r)
    \/ SoundStreamStep(r)
    \/ ClientDisconnect(r)
    \/ Release(r)

SpecTwoFiles == Init /\ [][NextTwoFiles]_vars

(* ------------------------ the upload-file command --------------------- *)

\* the retries and concurrency flags of the command go up to these
MaxRetries == 2

MaxConcurrency == 2

\* bufio: the smallest buffer a Reader is given
minReadBufferSize == 16

\* the local files (by size) and the chunk-size flags of the command
CliSizes == {5, 17}

CliChunkSizes == {12, 16}

\* the chunk numbers a server may report missing
MissingNumbers == 0 .. 2

\* the clock of the client when it runs the precheck, and the times and the
\* timeout the server may report
CliNow == 3

UpdatedAts == 0 .. 2

UploadTimeoutSecond == 2

DeleteStatuses == {"DELETE_INITIALIZED", "DELETE_IN_PROGRESS", "DELETE_FAILED"}

\* what GetFileStats may answer: an error, 404 (nil), or the row of the name
StatsError == [kind |-> "error"]

StatsNone == [kind |-> "nil"]

StatsRows ==
  [kind : {"row"}, checksum : Checksums, size : CliSizes,
   status : FileStatus \cup DeleteStatuses, updatedAt : UpdatedAts,
   timeout : {UploadTimeoutSecond}]

Min(a, b) == IF a < b THEN a ELSE b

\* initUploadUsecase.ExecutePrecheck with the comparison of the orphan test
\* turned round
ExecutePrecheckNotBefore(exists, checksum, fileSize, fileStats, now) ==
  IF ~exists THEN [action |-> "ReturnError", output |-> FALSE, err |-> TRUE]
  ELSE IF fileStats.kind = "error"
  THEN [action |-> "ReturnError", output |-> FALSE, err |-> TRUE]
  ELSE IF fileStats.kind = "nil"
  THEN [action |-> "ProceedWithInit", output |-> TRUE, err |-> FALSE]
  ELSE IF ~(fileStats.checksum = checksum /\ fileStats.size = fileSize)
  THEN [action |-> "SuggestExistingEntryDeletion", output |-> TRUE, err |-> FALSE]
  ELSE IF fileStats.status = FileStatusUploaded
  THEN [action |-> "Exits", output |-> FALSE, err |-> FALSE]
  ELSE IF fileStats.status = FileStatusInitialized
  THEN [action |-> "ProceedWithInit", output |-> TRUE, err |-> FALSE]
  ELSE IF fileStats.status = FileStatusFailed
  THEN [action |-> "ProceedWithReUpload", output |-> TRUE, err |-> FALSE]
  ELSE IF fileStats.status = FileStatusInProgress
  THEN IF fileStats.updatedAt >= now - fileStats.timeout
       THEN [action |-> "ProceedWithReUpload", output |-> TRUE, err |-> FALSE]
       ELSE [action |-> "Exits", output |-> FALSE, err |-> TRUE]
  ELSE [action |-> "SuggestExistingEntryDeletion", output |-> FALSE, err |-> FALSE]

\* initUploadUsecase.ExecutePrecheck: the action, whether an output comes
\* with it, and whether an error does
ExecutePrecheck(exists, checksum, fileSize, fileStats, now) ==
  IF ~exists THEN [action |-> "ReturnError", output |-> FALSE, err |-> TRUE]
  ELSE IF fileStats.kind = "error"
  THEN [action |-> "ReturnError", output |-> FALSE, err |-> TRUE]
  ELSE IF fileStats.kind = "nil"
  THEN [action |-> "ProceedWithInit", output |-> TRUE, err |-> FALSE]
  ELSE IF ~(fileStats.checksum = checksum /\ fileStats.size = fileSize)
  THEN [action |-> "SuggestExistingEntryDeletion", output |-> TRUE, err |-> FALSE]
  ELSE IF fileStats.status = FileStatusUploaded
  THEN [action |-> "Exits", output |-> FALSE, err |-> FALSE]
  ELSE IF fileStats.status = FileStatusInitialized
  THEN [action |-> "ProceedWithInit", output |-> TRUE, err |-> FALSE]
  ELSE IF fileStats.status = FileStatusFailed
  THEN [action |-> "ProceedWithReUpload", output |-> TRUE, err |-> FALSE]
  ELSE IF fileStats.status = FileStatusInProgress
  THEN IF fileStats.updatedAt < now - fileStats.timeout
       THEN [action |-> "ProceedWithReUpload", output |-> TRUE, err |-> FALSE]
       ELSE [action |-> "Exits", output |-> FALSE, err |-> TRUE]
  ELSE [action |-> "SuggestExistingEntryDeletion", output |-> FALSE, err |-> FALSE]

\* a chunk worker that waits for a chunk
IdleWorker == [pc |-> "range", c |-> 0, retry |-> 0, wait |-> 0]

\* the command as it is started: its flags, the local file, and what the
\* server will answer to GetFileStats
NewCli(exists, checksum, size, chunkSize, retries, concurrency, fileStats) ==
  [pc |-> "precheck", exists |-> exists, checksum |-> checksum, size |-> size,
   local |-> checksum, inits |-> 0,
   chunkSize |-> chunkSize, retries |-> retries, concurrency |-> concurrency,
   stats |-> fileStats, now |-> CliNow,
   action |-> "none", output |-> FALSE, isReUpload |-> FALSE, missing |-> {},
   ppc |-> "idle", off |-> 0, buffered |-> 0, chunkID |-> 0,
   pending |-> <<>>, chunksChan |-> <<>>, closed |-> FALSE,
   workers |-> [w \in 1 .. concurrency |-> IdleWorker],
   errorChan |-> <<>>, ret |-> "none",
   sent |-> {}, attempts |-> [n \in {} |-> 0], succeeded |-> {},
   deletes |-> 0, printed |-> {}]

\* the server as the command finds it
ServerAtRest ==
  /\ files = Empty
  /\ chunks = Empty
  /\ nextFileId = 1
  /\ nextChunkId = 1
  /\ dirs = {}
  /\ disk = Empty
  /\ availableSpace = InitialSpace
  /\ reqs = [r \in 1 .. NumSlots |-> Idle]
  /\ started = 0
  /\ client = NoClient
  /\ promotions = [f \in FileIds |-> 0]
  /\ clock = NoClock

\* the command is started on some file, with some flags, against some server
InitPrecheck ==
  /\ ServerAtRest
  /\ \E exists \in BOOLEAN, size \in CliSizes, chunkSize \in CliChunkSizes,
        retries \in 0 .. MaxRetries, concurrency \in 1 .. MaxConcurrency,
        fileStats \in {StatsError, StatsNone} \cup StatsRows :
       cli = NewCli(exists, "x", size, chunkSize, retries, concurrency, fileStats)

\* the command has passed its precheck, of a name the server does not know
\* or of a failed upload of the same file, and is about to call the init;
\* the local file may have been rewritten since
InitCli ==
  /\ ServerAtRest
  /\ \E size \in CliSizes, chunkSize \in CliChunkSizes, local \in Checksums,
        retries \in 0 .. MaxRetries, concurrency \in 1 .. MaxConcurrency,
        fileStats \in {StatsNone} \cup {row \in StatsRows : row.status = FileStatusFailed
                                                          /\ row.checksum = "x"
                                                          /\ row.updatedAt = 0} :
       LET res == ExecutePrecheck(TRUE, "x", size, fileStats, CliNow)
       IN /\ res.action \in {"ProceedWithInit", "ProceedWithReUpload"}
          /\ cli = [NewCli(TRUE, "x", size, chunkSize, retries, concurrency, fileStats)
                      EXCEPT !.pc = "init", !.action = res.action, !.output = res.output,
                             !.isReUpload = (res.action = "ProceedWithReUpload"),
                             !.local = local]

\* the server and the scenario client stand still while the command runs
CliOnly == UNCHANGED <<db, fs, availableSpace, reqs, started, client, promotions, clock>>

\* UploadCommandHandler.Execute, the precheck and what the command does with
\* its result: it ends on an error and on Exits, asks the user on a
\* conflict, and goes on to the init otherwise
CommandPrecheck ==
  /\ cli.pc = "precheck"
  /\ LET res == ExecutePrecheck(cli.exists, cli.checksum, cli.size, cli.stats, cli.now)
     IN cli' = [cli EXCEPT
                  !.action = res.action,
                  !.output = res.output,
                  !.isReUpload = (res.action = "ProceedWithReUpload"),
                  !.printed = IF res.err THEN {"precheckError"}
                              ELSE IF res.action = "Exits" THEN {"alreadyUploaded"}
                              ELSE {},
                  !.pc = IF res.err \/ res.action = "Exits" THEN "done"
                         ELSE IF res.action = "SuggestExistingEntryDeletion" THEN "conflict"
                         ELSE "init"]
  /\ CliOnly

\* handleFileConflict: the user declines, or the delete of the existing
\* entry fails, or it succeeds and the command goes on to a fresh init, for
\* which it reads the checksum of a precheck output that may be nil
CommandConflict(yes, deleteErr) ==
  /\ cli.pc = "conflict"
  /\ cli' = IF ~yes THEN [cli EXCEPT !.pc = "done", !.printed = {"cancelled"}]
            ELSE IF deleteErr
            THEN [cli EXCEPT !.pc = "done", !.deletes = @ + 1, !.printed = {"conflictError"}]
            ELSE IF ~cli.output
            THEN [cli EXCEPT !.pc = "panic", !.deletes = @ + 1]
            ELSE [cli EXCEPT !.pc = "init", !.deletes = @ + 1]
  /\ CliOnly

\* an init that does not compare the checksum of the file with the one of
\* the precheck
CommandInitUnchecked(initErr, missing) ==
  /\ cli.pc = "init"
  /\ cli' = IF initErr
            THEN [cli EXCEPT !.pc = "done", !.inits = @ + 1, !.printed = {"initError"}]
            ELSE [cli EXCEPT !.pc = "upload", !.inits = @ + 1, !.ppc = "read",
                             !.missing = missing]
  /\ CliOnly

\* initUploadUsecase.Execute: the checksum of the local file is computed
\* again, and the use case fails when it is not the one of the precheck;
\* otherwise InitUpload is sent, and it fails, or the server answers with or
\* without the missing chunks of the file; then the command starts the
\* chunk upload use case with its own chunk size
CommandInit(initErr, missing) ==
  /\ cli.pc = "init"
  /\ cli' = IF cli.local # cli.checksum
            THEN [cli EXCEPT !.pc = "done", !.printed = {"initError"}]
            ELSE IF initErr
            THEN [cli EXCEPT !.pc = "done", !.inits = @ + 1, !.printed = {"initError"}]
            ELSE [cli EXCEPT !.pc = "upload", !.inits = @ + 1, !.ppc = "read",
                             !.missing = missing]
  /\ CliOnly

\* bufio.Reader.Read into a buffer of the chunk size: the bytes it returns
\* (none at the end of the file) and where it leaves the file and its buffer
Read(chunkSize, size, off, buffered) ==
  IF buffered > 0
  THEN [n |-> Min(chunkSize, buffered), off |-> off,
        buffered |-> buffered - Min(chunkSize, buffered)]
  ELSE IF chunkSize >= minReadBufferSize
  THEN [n |-> Min(chunkSize, size - off), off |-> off + Min(chunkSize, size - off),
        buffered |-> 0]
  ELSE LET m == Min(minReadBufferSize, size - off)
       IN [n |-> Min(chunkSize, m), off |-> off + m, buffered |-> m - Min(chunkSize, m)]

\* the producer numbers a chunk it sends by the chunks it has sent, not by
\* the chunks it has read
ProducerReadCountsSent(readErr) ==
  /\ cli.pc = "upload"
  /\ cli.ppc = "read"
  /\ LET rd == Read(cli.chunkSize, cli.size, cli.off, cli.buffered)
         shouldSend == ~cli.isReUpload \/ cli.chunkID \in cli.missing
     IN cli' =
          IF readErr
          THEN [cli EXCEPT !.closed = TRUE, !.ret = "error", !.ppc = "returned"]
          ELSE IF rd.n = 0
          THEN [cli EXCEPT !.closed = TRUE, !.ppc = "wait"]
          ELSE IF shouldSend
          THEN [cli EXCEPT !.off = rd.off, !.buffered = rd.buffered, !.ppc = "select",
                           !.pending = <<[id |-> Cardinality(cli.sent),
                                          start |-> cli.off - cli.buffered, len |-> rd.n]>>]
          ELSE [cli EXCEPT !.off = rd.off, !.buffered = rd.buffered, !.chunkID = @ + 1]
  /\ CliOnly

\* UploadUsecase.Execute, a turn of the producer loop up to its select: the
\* read fails, or the file has ended and the chunk channel is closed, or a
\* chunk is read and either held out for the workers or skipped
ProducerRead(readErr) ==
  /\ cli.pc = "upload"
  /\ cli.ppc = "read"
  /\ LET rd == Read(cli.chunkSize, cli.size, cli.off, cli.buffered)
         shouldSend == ~cli.isReUpload \/ cli.chunkID \in cli.missing
     IN cli' =
          IF readErr
          THEN [cli EXCEPT !.closed = TRUE, !.ret = "error", !.ppc = "returned"]
          ELSE IF rd.n = 0
          THEN [cli EXCEPT !.closed = TRUE, !.ppc = "wait"]
          ELSE IF shouldSend
          THEN [cli EXCEPT !.off = rd.off, !.buffered = rd.buffered, !.ppc = "select",
                           !.pending = <<[id |-> cli.chunkID,
                                          start |-> cli.off - cli.buffered, len |-> rd.n]>>]
          ELSE [cli EXCEPT !.off = rd.off, !.buffered = rd.buffered, !.chunkID = @ + 1]
  /\ CliOnly

\* a producer that only sends in its select and does not listen for errors
ProducerSelectSendOnly(takeErr) ==
  /\ cli.pc = "upload"
  /\ cli.ppc = "select"
  /\ ~takeErr
  /\ Len(cli.chunksChan) < cli.concurrency
  /\ cli' = [cli EXCEPT !.chunksChan = Append(@, cli.pending[1].id),
                        !.sent = @ \cup {cli.pending[1]},
                        !.pending = <<>>, !.chunkID = @ + 1, !.ppc = "read"]
  /\ CliOnly

\* the select of the producer: the chunk goes into the channel when it has
\* room, or the error of a worker ends the use case
ProducerSelect(takeErr) ==
  /\ cli.pc = "upload"
  /\ cli.ppc = "select"
  /\ IF takeErr
     THEN /\ cli.errorChan # <<>>
          /\ cli' = [cli EXCEPT !.errorChan = Tail(@), !.closed = TRUE, !.pending = <<>>,
                                !.ret = "error", !.ppc = "returned"]
     ELSE /\ Len(cli.chunksChan) < cli.concurrency
          /\ cli' = [cli EXCEPT !.chunksChan = Append(@, cli.pending[1].id),
                                !.sent = @ \cup {cli.pending[1]},
                                !.pending = <<>>, !.chunkID = @ + 1, !.ppc = "read"]
  /\ CliOnly

\* the end of the use case: the first error of a worker, or nil once every
\* worker has left and the error channel is closed empty
ProducerWait ==
  /\ cli.pc = "upload"
  /\ cli.ppc = "wait"
  /\ IF cli.errorChan # <<>>
     THEN cli' = [cli EXCEPT !.errorChan = Tail(@), !.ret = "error", !.ppc = "returned"]
     ELSE /\ \A w \in DOMAIN cli.workers : cli.workers[w].pc = "exited"
          /\ cli' = [cli EXCEPT !.ret = "nil", !.ppc = "returned"]
  /\ CliOnly

\* a worker takes the next chunk of the channel, or leaves when the channel
\* is closed and empty
WorkerRange(w) ==
  /\ cli.pc \in {"upload", "done"}
  /\ w \in DOMAIN cli.workers
  /\ cli.workers[w].pc = "range"
  /\ IF cli.chunksChan # <<>>
     THEN cli' = [cli EXCEPT !.chunksChan = Tail(@),
                             !.workers[w] = [pc |-> "attempt", c |-> Head(cli.chunksChan),
                                             retry |-> 0, wait |-> 0]]
     ELSE /\ cli.closed
          /\ cli' = [cli EXCEPT !.workers[w].pc = "exited"]
  /\ CliOnly

\* a worker that gives a chunk up one attempt early
WorkerAttemptGivesUpEarly(w, uploadErr) ==
  /\ cli.pc \in {"upload", "done"}
  /\ w \in DOMAIN cli.workers
  /\ cli.workers[w].pc = "attempt"
  /\ LET me == cli.workers[w]
         counted == [n \in DOMAIN cli.attempts \cup {me.c} |->
                       IF n = me.c
                       THEN (IF n \in DOMAIN cli.attempts THEN cli.attempts[n] ELSE 0) + 1
                       ELSE cli.attempts[n]]
     IN cli' =
          IF ~uploadErr
          THEN [cli EXCEPT !.attempts = counted, !.succeeded = @ \cup {me.c},
                           !.workers[w] = IdleWorker]
          ELSE IF me.retry + 1 < cli.retries
          THEN [cli EXCEPT !.attempts = counted,
                           !.workers[w] = [me EXCEPT !.pc = "sleep", !.wait = me.retry + 1]]
          ELSE [cli EXCEPT !.attempts = counted, !.errorChan = Append(@, me.c),
                           !.workers[w] = [me EXCEPT !.pc = "exited"]]
  /\ CliOnly

\* one UploadChunk of a worker and what follows it: on success the worker
\* goes back to the channel, on a failure it sleeps when it has a retry
\* left, and otherwise sends its error and leaves
WorkerAttempt(w, uploadErr) ==
  /\ cli.pc \in {"upload", "done"}
  /\ w \in DOMAIN cli.workers
  /\ cli.workers[w].pc = "attempt"
  /\ LET me == cli.workers[w]
         counted == [n \in DOMAIN cli.attempts \cup {me.c} |->
                       IF n = me.c
                       THEN (IF n \in DOMAIN cli.attempts THEN cli.attempts[n] ELSE 0) + 1
                       ELSE cli.attempts[n]]
     IN cli' =
          IF ~uploadErr
          THEN [cli EXCEPT !.attempts = counted, !.succeeded = @ \cup {me.c},
                           !.workers[w] = IdleWorker]
          ELSE IF me.retry < cli.retries
          THEN [cli EXCEPT !.attempts = counted,
                           !.workers[w] = [me EXCEPT !.pc = "sleep", !.wait = me.retry + 1]]
          ELSE [cli EXCEPT !.attempts = counted, !.errorChan = Append(@, me.c),
                           !.workers[w] = [me EXCEPT !.pc = "exited"]]
  /\ CliOnly

\* the sleep of a worker is over: the next attempt of its chunk
WorkerWake(w) ==
  /\ cli.pc \in {"upload", "done"}
  /\ w \in DOMAIN cli.workers
  /\ cli.workers[w].pc = "sleep"
  /\ cli' = [cli EXCEPT !.workers[w] = [@ EXCEPT !.pc = "attempt", !.retry = @ + 1, !.wait = 0]]
  /\ CliOnly

\* a command that takes the upload for done whatever the use case returns
CommandReportIgnoresError(deleteErr) ==
  /\ cli.pc = "upload"
  /\ cli.ret # "none"
  /\ ~deleteErr
  /\ cli' = [cli EXCEPT !.pc = "done", !.printed = {"success"}]
  /\ CliOnly

\* UploadCommandHandler.Execute after the use case has returned: on an error
\* one DeleteFile of the target name, whose own error is only printed, and
\* the error of the upload; otherwise the success message
CommandReport(deleteErr) ==
  /\ cli.pc = "upload"
  /\ cli.ret # "none"
  /\ IF cli.ret = "error"
     THEN cli' = [cli EXCEPT !.pc = "done", !.deletes = @ + 1,
                             !.printed = IF deleteErr THEN {"deleteError", "uploadError"}
                                         ELSE {"uploadError"}]
     ELSE /\ ~deleteErr
          /\ cli' = [cli EXCEPT !.pc = "done", !.printed = {"success"}]
  /\ CliOnly

\* the precheck of the command against a server that may answer anything
NextPrecheck ==
  \/ CommandPrecheck
  \/ \E yes \in BOOLEAN, deleteErr \in BOOLEAN : CommandConflict(yes, deleteErr)

SpecPrecheck == InitPrecheck /\ [][NextPrecheck]_vars

\* the upload of the command against a server that may answer anything
NextCli ==
  \/ \E initErr \in BOOLEAN, missing \in SUBSET MissingNumbers : CommandInit(initErr, missing)
  \/ \E readErr \in BOOLEAN : ProducerRead(readErr)
  \/ \E takeErr \in BOOLEAN : ProducerSelect(takeErr)
  \/ ProducerWait
  \/ \E w \in 1 .. MaxConcurrency :
       \/ WorkerRange(w)
       \/ \E uploadErr \in BOOLEAN : WorkerAttempt(w, uploadErr)
       \/ WorkerWake(w)
  \/ \E deleteErr \in BOOLEAN : CommandReport(deleteErr)

SpecCli == InitCli /\ [][NextCli]_vars

\* the steps of the producer goroutine and of worker w
Producer ==
  \/ \E readErr \in BOOLEAN : ProducerRead(readErr)
  \/ \E takeErr \in BOOLEAN : ProducerSelect(takeErr)
  \/ ProducerWait

Worker(w) ==
  \/ WorkerRange(w)
  \/ \E uploadErr \in BOOLEAN : WorkerAttempt(w, uploadErr)
  \/ WorkerWake(w)

\* the same with the goroutines scheduled fairly: a goroutine that can go
\* on does, every UploadChunk is answered and every sleep ends
SpecCliLive ==
  /\ SpecCli
  /\ WF_vars(Producer)
  /\ \A w \in 1 .. MaxConcurrency : WF_vars(Worker(w))

(* ------------------- the command against the server ------------------ *)

\* the command is run at most this often on the client's file
MaxRuns == 2

\* the bytes of the client's file: no two of them alike
ClientContent == [i \in 1 .. ClientFile.size |-> i]

\* the chunk-size flags the command is run with
RunChunkSizes == 1 .. ClientFile.size

\* initUploadUsecase.Execute: the number of chunks the client declares
NumChunks(fileSize, chunkSize) == (fileSize + chunkSize - 1) \div chunkSize

\* the bytes the producer reads for chunk n of the client's file
ChunkData(n, chunkSize) ==
  SubSeq(ClientContent, n * chunkSize + 1, Min((n + 1) * chunkSize, ClientFile.size))

\* the stats of a name as the server answers them
GetFileStats(name) ==
  IF GetFileByName(name) = 0 THEN StatsNone
  ELSE LET row == files[GetFileByName(name)]
       IN [kind |-> "row", checksum |-> row.checksum, size |-> row.size,
           status |-> row.status, updatedAt |-> row.updatedAt,
           timeout |-> UploadTimeoutSecond]

\* the command is run on the client's file with some chunk size, for the
\* first time or again after it was killed: the precheck and, if it says
\* so, the init with the chunk count of this run
RunCommand(r, chunkSize) ==
  /\ client.phase \in {"start", "killed"}
  /\ client.runs < MaxRuns
  /\ Quiescent
  /\ LET res == ExecutePrecheck(TRUE, ClientFile.checksum, ClientFile.size,
                                GetFileStats(ClientFile.name), CliNow)
         total == NumChunks(ClientFile.size, chunkSize)
         isReUpload == res.action = "ProceedWithReUpload"
     IN IF res.action \in {"ProceedWithInit", "ProceedWithReUpload"}
        THEN /\ AcceptInit(r, ClientFile.name, ClientFile.checksum, ClientFile.size,
                           total, isReUpload)
             /\ client' = [NoClient EXCEPT !.phase = "init", !.name = ClientFile.name,
                                           !.checksum = ClientFile.checksum,
                                           !.size = ClientFile.size, !.total = total,
                                           !.chunkSize = chunkSize, !.reup = isReUpload,
                                           !.runs = client.runs + 1]
        ELSE /\ client' = [client EXCEPT !.phase = "exit", !.runs = @ + 1]
             /\ UNCHANGED <<db, fs, availableSpace, reqs, promotions, cli, clock>>
  /\ UNCHANGED started

\* a request of the command ends: the init gives the upload id and the
\* missing chunks, or ends the run; a chunk answered 200 is done
RunReceive(r) ==
  /\ Close(r)
  /\ UNCHANGED clock
  /\ LET q == reqs[r]
     IN client' =
          IF q.kind = "init" /\ client.phase = "init"
          THEN IF q.result = "OK"
               THEN [client EXCEPT !.phase = "upload", !.fid = q.fid, !.missing = q.missing]
               ELSE [client EXCEPT !.phase = "failed"]
          ELSE IF q.kind = "write" /\ q.result = "OK" /\ client.phase = "upload"
          THEN [client EXCEPT !.ok = @ \cup {q.num}]
          ELSE client

\* a worker of the command sends chunk n of this run, in a resume only if
\* the server reported it missing; a chunk that failed is tried again
RunSend(r, n) ==
  /\ client.phase = "upload"
  /\ n \in ClientChunks \ client.ok
  /\ client.reup => n \in client.missing
  /\ \A s \in Slots : ~(reqs[s].kind = "write" /\ reqs[s].num = n)
  /\ AcceptWrite(r, client.fid, n)
  /\ client' = [client EXCEPT !.sent = @ \cup {n}]
  /\ UNCHANGED started

\* the copy loop fed with the body the command has sent: the bytes of the
\* chunk as this run cuts the file, read in one buffer, then the end of the
\* body; the read fails only when the client has closed the connection
RunStreamStep(r) ==
  \E outcome \in {"error", "eof", "write"} :
    LET path == <<reqs[r].name, reqs[r].num>>
        body == ChunkData(reqs[r].num, client.chunkSize)
        written == IF path \in DOMAIN disk THEN Len(disk[path]) ELSE 0
    IN /\ outcome = "error" => reqs[r].disconnected
       /\ (outcome = "eof" /\ ~reqs[r].cancelled) => written >= Len(body)
       /\ outcome = "write" => written < Len(body)
       /\ WriteChunkLoop(r, outcome, SubSeq(body, written + 1, Len(body)))

\* the chunks this run of the command puts into the channel: all of them,
\* in a re-upload those of the missing chunk map
RunChunks == IF client.reup THEN ClientChunks \cap client.missing ELSE ClientChunks

\* uploadUsecase.Execute returns nil once every chunk it sent has been
\* answered 200, and the command prints "Successfully uploaded!"
RunReport ==
  /\ client.phase = "upload"
  /\ RunChunks \subseteq client.ok
  /\ client' = [client EXCEPT !.phase = "success"]
  /\ UNCHANGED <<db, fs, availableSpace, reqs, started, promotions, cli, clock>>

\* uploads of one file by the command, which may be killed and run again
\* with another chunk size, on a server where nothing else fails
NextRerun ==
  \/ ClientKill
  \/ RunReport
  \/ \E r \in 1 .. NumSlots :
       \/ \E chunkSize \in RunChunkSizes : RunCommand(r, chunkSize)
       \/ \E n \in 0 .. (MaxChunks - 1) : RunSend(r, n)
       \/ RunReceive(r)
       \/ InitStep(r)
       \/ ResumeStep(r)
       \/ WriteStep(r)
       \/ RunStreamStep(r)

SpecRerun == Init /\ [][NextRerun]_vars

(* ------------------------ an upload and the clock --------------------- *)

\* the time the scenario runs for
MaxClock == 3

\* time passes; the answer to a chunk the server has counted takes no time
Tick ==
  /\ clock.now < MaxClock
  /\ \A r \in Slots : ~(reqs[r].kind = "write" /\ reqs[r].ucErr = "nil")
  /\ clock' = [clock EXCEPT !.now = @ + 1]
  /\ UNCHANGED <<db, fs, availableSpace, reqs, started, client, promotions, cli>>

\* a request of the uploading client ends; the time of a chunk answered
\* 200 is noted
TimedReceive(r) ==
  /\ Close(r)
  /\ LET q == reqs[r]
     IN /\ client' =
             IF q.kind = "init" /\ q.result = "OK" /\ client.phase = "init"
             THEN [client EXCEPT !.phase = "upload", !.fid = q.fid]
             ELSE IF q.kind = "write" /\ q.result = "OK" /\ client.phase = "upload"
             THEN [client EXCEPT !.ok = @ \cup {q.num}]
             ELSE client
        /\ clock' = IF q.kind = "write" /\ q.result = "OK"
                    THEN [clock EXCEPT !.lastDone = clock.now] ELSE clock

\* a second client runs the precheck of the command on a file of the same
\* name and content; noted with it: the status it was shown, and whether a
\* chunk write had been answered less than the upload timeout before
OtherPrecheck ==
  /\ cli.pc = "off"
  /\ LET stats == GetFileStats(ClientFile.name)
         res == ExecutePrecheck(TRUE, ClientFile.checksum, ClientFile.size, stats,
                                clock.now)
     IN cli' = [pc |-> "prechecked", action |-> res.action,
                status |-> IF stats = StatsNone THEN "" ELSE stats.status,
                recent |-> /\ clock.lastDone >= 0
                           /\ clock.now - clock.lastDone < UploadTimeoutSecond]
  /\ UNCHANGED <<db, fs, availableSpace, reqs, started, client, promotions, clock>>

\* the client starts the upload of its file in MaxChunks chunks
TimedOpen(r) ==
  ClientInit(r, ClientFile.name, ClientFile.checksum, ClientFile.size, MaxChunks)

\* the steps of a chunk write whose client stays to the end
AnsweredWriteStep(r) ==
  \/ ExecuteGetFile(r)
  \/ ExecuteGetChunk(r)
  \/ ExecutePromote(r)
  \/ WriteChunkMkdirAll(r)
  \/ WriteChunkCreate(r)
  \/ ExecuteMarkUploaded(r)
  \/ ExecuteIncrement(r)
  \/ ExecutePromoteFile(r)
  \/ HandlerReceive(r)

\* a fresh upload by one client that stays, while time passes and a second
\* client runs its precheck
NextTimed ==
  \/ Tick
  \/ OtherPrecheck
  \/ \E r \in 1 .. NumSlots :
       \/ TimedOpen(r)
       \/ \E n \in 0 .. (MaxChunks - 1) : ClientSend(r, n)
       \/ TimedReceive(r)
       \/ InitStep(r)
       \/ AnsweredWriteStep(r)
       \/ SoundStreamStep(r)

SpecTimed == Init /\ [][NextTimed]_vars

(* ------------------------------- claims ------------------------------- *)

\* the chunk rows of a file that are UPLOADED
UploadedChunksOf(f) == GetChunksByStatus(f, {FileStatusUploaded})

\* C1: for every file, after every committed transaction, uploaded_chunks
\* equals the number of its chunk rows whose status is UPLOADED.
C1_UploadedChunksEqualsCount ==
  \A f \in DOMAIN files : files[f].uploaded = Cardinality(UploadedChunksOf(f))

\* C2: once a chunk row is UPLOADED no request changes its status; the row
\* disappears only together with its file (cascade delete).
C2_UploadedChunkIsFinal ==
  [][\A c \in DOMAIN chunks :
       chunks[c].status = FileStatusUploaded =>
         IF c \in DOMAIN chunks'
         THEN chunks'[c].status = FileStatusUploaded
         ELSE chunks[c].parent \notin DOMAIN files']_vars

\* C3: UPLOADED is terminal for a file: once a file is UPLOADED no request
\* changes that status; only DeleteFile removes the row.
C3_UploadedFileIsTerminal ==
  [][\A f \in DOMAIN files :
       (files[f].status = FileStatusUploaded /\ f \in DOMAIN files')
         => files'[f].status = FileStatusUploaded]_vars

\* C4: every file whose status is UPLOADED has all of its total_chunks chunk
\* rows UPLOADED, each with its chunk file on disk with positive size.
C4_UploadedFileIsComplete ==
  \A f \in DOMAIN files :
    files[f].status = FileStatusUploaded =>
      /\ Cardinality(UploadedChunksOf(f)) = files[f].total
      /\ \A c \in GetChunksByFileID(f) :
           /\ <<files[f].name, chunks[c].num>> \in DOMAIN disk
           /\ Len(disk[<<files[f].name, chunks[c].num>>]) > 0

\* a resume InitUpload has been answered OK by slot r
ResumeAnswered(r) ==
  /\ reqs[r].kind = "init" /\ reqs[r].pc = "done"
  /\ reqs[r].reup /\ reqs[r].result = "OK"
  /\ reqs[r].fstatus # ""

\* C5: after a resume InitUpload succeeds on a FAILED file, the file is back
\* in INITIALIZED and every chunk of the missing set is INITIALIZED, so that
\* a WriteChunk of a missing chunk passes the state guard.
C5_ResumeReopensFailedFile ==
  \A r \in Slots :
    (ResumeAnswered(r) /\ reqs[r].fstatus = FileStatusFailed
       /\ reqs[r].fid \in DOMAIN files
       /\ \A s \in Slots \ {r} : reqs[s].kind = "idle")
      => /\ files[reqs[r].fid].status = FileStatusInitialized
         /\ \A x \in reqs[r].invalid :
              /\ chunks[x.id].status = FileStatusInitialized
              /\ WriteAllowed(files[reqs[r].fid].status, chunks[x.id].status)

\* the chunk numbers of file f whose row is not UPLOADED
NotUploadedNumbers(f) ==
  {chunks[c].num : c \in {d \in GetChunksByFileID(f) : chunks[d].status # FileStatusUploaded}}

\* C7: the missing set a resume returns is exactly the set of chunk numbers
\* of the file whose status is not UPLOADED when the resume selects them, and
\* the response lists exactly the numbers selected.
C7_MissingSetIsExact ==
  [][\A r \in 1 .. NumSlots :
       /\ (reqs[r].kind = "init" /\ reqs[r].pc = "selectInvalid"
             /\ reqs'[r].pc = "deleteStray")
            => {x.num : x \in reqs'[r].invalid} = NotUploadedNumbers(reqs[r].fid)
       /\ (reqs[r].kind = "init" /\ reqs[r].pc = "reserve" /\ reqs'[r].pc = "done")
            => reqs'[r].missing = {x.num : x \in reqs[r].invalid}]_vars

\* C7, its case: a resume answered with a missing set that holds a FAILED
\* chunk and leaves out an UPLOADED one
C7_Witness ==
  \E r \in Slots :
    /\ ResumeAnswered(r)
    /\ \E x \in reqs[r].invalid : x.st = FileStatusFailed
    /\ reqs[r].fid \in DOMAIN files
    /\ \E c \in GetChunksByFileID(reqs[r].fid) : chunks[c].num \notin reqs[r].missing

\* C10: when the client disconnects while the chunk is being written, then
\* once the handler and the use-case goroutine have both finished, the chunk
\* is FAILED and the file is FAILED.
C10_DisconnectFailsChunkAndFile ==
  \A r \in Slots :
    (/\ reqs[r].kind = "write" /\ reqs[r].midWrite
     /\ reqs[r].pc = "done" /\ reqs[r].hpc = "done"
     /\ reqs[r].fid \in DOMAIN files
     /\ \A s \in Slots \ {r} : reqs[s].kind = "idle")
      => /\ files[reqs[r].fid].status = FileStatusFailed
         /\ chunks[reqs[r].cid].status = FileStatusFailed

\* the chunks of the client's file for which a WriteChunk has returned 200
ReturnedOk ==
  client.ok \cup {reqs[r].num : r \in {s \in Slots : reqs[s].kind = "write"
                                                      /\ reqs[s].result = "OK"}}

\* every WriteChunk the server has accepted has been answered
AllReturned == \A r \in Slots : reqs[r].kind = "write" => reqs[r].hpc = "done"

\* C6: init(x); write a subset; client disconnect; init(x, is_reupload=true);
\* write the remaining chunks ends as an uninterrupted upload does: the file
\* UPLOADED, every chunk UPLOADED, uploaded_chunks equal to total_chunks.
C6_ResumedUploadCompletes ==
  (client.phase = "reupload" /\ client.sent = Remaining /\ Quiescent)
    => /\ client.fid \in DOMAIN files
       /\ files[client.fid].status = FileStatusUploaded
       /\ \A c \in GetChunksByFileID(client.fid) : chunks[c].status = FileStatusUploaded
       /\ files[client.fid].uploaded = files[client.fid].total

C9_AllSuccessMeansUploaded ==
  (client.phase = "upload" /\ ReturnedOk = ClientChunks /\ AllReturned)
    => /\ client.fid \in DOMAIN files
       /\ files[client.fid].status = FileStatusUploaded

\* C9, its case: the last two chunks were written together (both requests
\* read the file while it was INITIALIZED), both succeeded, and every chunk
\* has succeeded
C9_Witness ==
  /\ client.phase = "upload"
  /\ client.total >= 2
  /\ ReturnedOk = ClientChunks
  /\ AllReturned
  /\ Cardinality({r \in Slots : /\ reqs[r].kind = "write"
                                /\ reqs[r].ucErr = "nil"
                                /\ reqs[r].fstatus = FileStatusInitialized}) >= 2
  /\ files[client.fid].status = FileStatusUploaded

\* slot r's handler commits its fail-recovery call in this step
FailRecoveryCommits(r) ==
  /\ reqs[r].kind = "write"
  /\ \/ reqs[r].hpc = "recoverBackground"
     \/ reqs[r].hpc = "recoverRequest" /\ ~reqs[r].disconnected
  /\ reqs'[r].hpc = "done"

\* C11: after FailRecovery(file_id, chunk_number) returns ok, the chunk of
\* that file with that chunk_number is FAILED and the file is FAILED.
C11_FailRecoveryFailsTheChunk ==
  [][\A r \in 1 .. NumSlots :
       (/\ FailRecoveryCommits(r)
        /\ reqs[r].fid \in DOMAIN files
        /\ GetChunk(reqs[r].fid, reqs[r].num) # 0)
         => /\ files'[reqs[r].fid].status = FileStatusFailed
            /\ chunks'[GetChunk(reqs[r].fid, reqs[r].num)].status = FileStatusFailed]_vars

\* the use case of slot r leaves the position pc in this step
Leaves(r, pc) == reqs[r].pc = pc /\ reqs'[r].pc # pc

\* C12: a WriteChunk for a chunk that is already UPLOADED is rejected with
\* INVALID_INPUT, and up to the rejection the request writes nothing to
\* storage and updates no row.
C12_UploadedChunkIsRejected ==
  [][\A r \in 1 .. NumSlots :
       reqs[r].kind = "write" =>
         /\ Leaves(r, "getFile") => UNCHANGED <<db, fs>>
         /\ (/\ Leaves(r, "getChunk")
             /\ ~reqs[r].cancelled
             /\ GetChunk(reqs[r].fid, reqs[r].num) # 0
             /\ chunks[GetChunk(reqs[r].fid, reqs[r].num)].status = FileStatusUploaded)
              => /\ reqs'[r].pc = "done"
                 /\ reqs'[r].ucErr = "INVALID_INPUT"
                 /\ UNCHANGED <<db, fs>>]_vars

\* C12, its case: a WriteChunk rejected with INVALID_INPUT while its chunk
\* is UPLOADED and its file is still open for writing
C12_Witness ==
  \E r \in Slots :
    /\ reqs[r].kind = "write"
    /\ reqs[r].ucErr = "INVALID_INPUT"
    /\ reqs[r].hpc = "select"
    /\ reqs[r].fstatus = FileStatusInProgress
    /\ GetChunk(reqs[r].fid, reqs[r].num) # 0
    /\ chunks[GetChunk(reqs[r].fid, reqs[r].num)].status = FileStatusUploaded

\* C13: a WriteChunk whose chunk_number equals the file's total_chunks
\* fails with INVALID_INPUT.
C13_OnePastLastIsInvalidInput ==
  [][\A r \in 1 .. NumSlots :
       (/\ reqs[r].kind = "write"
        /\ Leaves(r, "getChunk")
        /\ ~reqs[r].cancelled
        /\ reqs[r].fid \in DOMAIN files
        /\ reqs[r].num = files[reqs[r].fid].total)
         => reqs'[r].ucErr = "INVALID_INPUT"]_vars

(* ------------------------------ DeleteFile ---------------------------- *)

\* request r's DeleteFile returns success in this step
DeleteSucceeds(r) ==
  /\ reqs[r].kind = "delete"
  /\ reqs[r].result # "OK"
  /\ reqs'[r].result = "OK"

\* C14: at the moment DeleteFile(name) returns success there is no file row
\* of that name, no chunk row of that file and no content directory of that
\* name.
C14_DeletedFileIsGone ==
  [][\A r \in 1 .. NumSlots :
       DeleteSucceeds(r)
         => /\ \A f \in DOMAIN files' : files'[f].name # reqs[r].name
            /\ \A c \in DOMAIN chunks' : chunks'[c].parent # reqs[r].fid
            /\ reqs[r].name \notin dirs']_vars

\* C15: a DeleteFile(name) that follows a successful one returns NOT_FOUND
\* and changes no row, no file on disk and not the free-space counter.
C15_SecondDeleteIsNotFound ==
  [][\A r \in 1 .. NumSlots :
       (/\ reqs[r].kind = "delete"
        /\ Leaves(r, "lookup")
        /\ ~reqs[r].disconnected
        /\ GetFileByName(reqs[r].name) = 0)
         => /\ reqs'[r].result = "NOT_FOUND"
            /\ reqs'[r].pc = "done"
            /\ UNCHANGED <<db, fs, availableSpace>>]_vars

\* a file was created and deleted with success, and a later DeleteFile of
\* its name has been answered NOT_FOUND
C15_Witness ==
  /\ nextFileId > 1
  /\ files = Empty
  /\ \A s \in Slots : reqs[s].pc # "credit"
  /\ \E r \in Slots : reqs[r].kind = "delete" /\ reqs[r].result = "NOT_FOUND"

\* request r comes to position pc in this step
Enters(r, pc) == reqs[r].pc # pc /\ reqs'[r].pc = pc

\* C16: within one DeleteFile, every chunk-file deletion has been attempted
\* and the pool's workers have been joined before the directory is removed,
\* the directory is removed before the file row is deleted, and success is
\* returned only after the row is deleted.
C16_DeleteStepsInOrder ==
  [][\A r \in 1 .. NumSlots : reqs[r].kind = "delete" =>
       /\ Enters(r, "deleteRow")
            => /\ reqs[r].pc = "deleteChunks"
               /\ reqs[r].todo = {} /\ reqs[r].running = {}
               /\ reqs[r].name \notin dirs'
               /\ UNCHANGED <<files, chunks>>
       /\ Enters(r, "credit")
            => /\ reqs[r].pc = "deleteRow"
               /\ reqs[r].fid \notin DOMAIN files'
       /\ DeleteSucceeds(r) => reqs[r].pc = "credit"]_vars

\* a DeleteFile of a file of two chunks has returned success
C16_Witness ==
  /\ nextChunkId > 2
  /\ \E r \in Slots : reqs[r].kind = "delete" /\ reqs[r].result = "OK"

\* C17: a failed deletion of a chunk file never makes DeleteFile fail; a
\* failed removal of the directory or of the row makes DeleteFile return
\* that error, and the failed removal of the directory leaves the rows as
\* they are.
C17_OnlyDirectoryAndRowFailuresSurface ==
  [][\A r \in 1 .. NumSlots : reqs[r].kind = "delete" =>
       /\ (reqs[r].pc = "deleteChunks" /\ reqs'[r].undeleted # reqs[r].undeleted)
            => reqs'[r].result = "none" /\ reqs'[r].pc = "deleteChunks"
       /\ (Leaves(r, "deleteChunks") /\ reqs'[r].result # "none")
            => reqs[r].running = {} /\ reqs[r].name \in dirs'
       /\ (Leaves(r, "deleteChunks") /\ reqs[r].name \in dirs')
            => /\ reqs'[r].result = "FILE_STORAGE"
               /\ reqs'[r].pc = "done"
               /\ UNCHANGED <<files, chunks>>
       /\ (Leaves(r, "deleteRow") /\ reqs[r].fid \in DOMAIN files')
            => reqs'[r].result = "DATABASE" /\ reqs'[r].pc = "done"]_vars

\* a DeleteFile has returned success although the deletion of one of its
\* chunk files had failed
C17_Witness ==
  \E r \in Slots :
    reqs[r].kind = "delete" /\ reqs[r].result = "OK" /\ reqs[r].undeleted # {}

(* ------------------------- free-space accountant ---------------------- *)

\* the bytes of the files of a set of file rows
RECURSIVE TotalSize(_)
TotalSize(S) ==
  IF S = {} THEN 0
  ELSE LET f == CHOOSE x \in S : TRUE
       IN files[f].size + TotalSize(S \ {f})

\* the bytes of the files admitted and not deleted
Admitted == TotalSize(DOMAIN files)

\* C18: the free-space counter is never negative, drops by total_size when
\* InitUpload admits a new upload and rises by the file's size when the file
\* is deleted: with no request in flight, the counter and the bytes of the
\* admitted files add up to no more than the space the counter started with.
C18_CounterFollowsAdmissions ==
  /\ availableSpace >= 0
  /\ Quiescent => availableSpace + Admitted <= InitialSpace

\* C19: the free-space counter increases only in the step in which a
\* DeleteFile succeeds; no InitUpload, fresh or resume, increases it.
C19_OnlyDeleteCredits ==
  [][availableSpace' > availableSpace
       => \E r \in 1 .. NumSlots : DeleteSucceeds(r)]_vars

\* C20: for any interleaving of InitUpload and DeleteFile requests, the
\* bytes of the files admitted and not deleted never exceed the space the
\* accountant was seeded with.
C20_NeverOverAdmits == Admitted <= InitialSpace

(* ------------------------------ InitUpload ---------------------------- *)

\* C21: an InitUpload whose total_size is greater than the available space
\* fails with FILE_STORAGE, creates no file row, chunk row or directory and
\* leaves the free-space counter unchanged.
C21_NoSpaceIsRefused ==
  [][\A r \in 1 .. NumSlots :
       (/\ reqs[r].kind = "init"
        /\ Leaves(r, "checkSpace")
        /\ reqs[r].size > availableSpace)
         => /\ reqs'[r].result = "FILE_STORAGE"
            /\ reqs'[r].pc = "done"
            /\ UNCHANGED <<db, fs, availableSpace>>]_vars

\* an InitUpload larger than the available space has been refused
C21_Witness ==
  \E r \in Slots :
    /\ reqs[r].kind = "init"
    /\ reqs[r].size > availableSpace
    /\ reqs[r].result = "FILE_STORAGE"

\* C22: no two file rows share a name, also when two InitUpload requests
\* for the same new name run concurrently: at most one of them creates a row
\* and its chunks.
C22_NamesAreUnique ==
  /\ \A f, g \in DOMAIN files : files[f].name = files[g].name => f = g
  /\ \A f \in DOMAIN files : Cardinality(GetChunksByFileID(f)) = files[f].total
  /\ \A c \in DOMAIN chunks : chunks[c].parent \in DOMAIN files

\* two InitUpload requests for one new name both found no row; one has
\* created it and the other has been refused by the database
C22_Witness ==
  \E r, s \in Slots :
    /\ r # s
    /\ reqs[r].kind = "init" /\ reqs[s].kind = "init"
    /\ reqs[r].name = reqs[s].name
    /\ reqs[r].fid # 0 /\ reqs[r].fid \in DOMAIN files
    /\ reqs[s].result = "DATABASE"

\* the row that InitUpload finds lets the request go on: same checksum and
\* size, and INITIALIZED, or IN_PROGRESS or FAILED with is_reupload
InitAllowedOn(row, q) ==
  /\ row.checksum = q.checksum
  /\ row.size = q.size
  /\ \/ row.status = FileStatusInitialized
     \/ row.status \in {FileStatusInProgress, FileStatusFailed} /\ q.reup

Lists(r) == reqs[r].kind = "list" /\ Leaves(r, "query")

\* C25: after init(x) and a successful WriteChunk of every chunk of x, in
\* any order, ListFiles returns a list that contains the name of x.
C25_UploadedFileIsListed ==
  [][\A r \in 1 .. NumSlots :
       (Lists(r) /\ client.phase = "upload" /\ ReturnedOk = ClientChunks)
         => client.name \in reqs'[r].listed]_vars

\* the file of two chunks written together is listed
C25_Witness ==
  /\ client.total >= 2
  /\ ReturnedOk = ClientChunks
  /\ \E r \in Slots :
       /\ reqs[r].kind = "list"
       /\ reqs[r].result = "OK"
       /\ client.name \in reqs[r].listed

\* C26: ListFiles returns exactly the names of the files whose status is
\* UPLOADED at the time of the call: no file that is INITIALIZED, IN_PROGRESS
\* or FAILED, and every file that is UPLOADED.
C26_ListIsTheUploadedFiles ==
  [][\A r \in 1 .. NumSlots :
       Lists(r)
         => /\ reqs'[r].result = "OK"
            /\ \A f \in DOMAIN files :
                 files[f].name \in reqs'[r].listed
                   <=> files[f].status = FileStatusUploaded
            /\ \A name \in reqs'[r].listed :
                 \E f \in DOMAIN files : files[f].name = name]_vars

\* a ListFiles has answered with no name while the file was FAILED
C26_Witness ==
  \E r \in Slots :
    /\ reqs[r].kind = "list"
    /\ reqs[r].result = "OK"
    /\ reqs[r].listed = {}
    /\ \E f \in DOMAIN files : files[f].status = FileStatusFailed

\* the observation of the precheck is a row of the same content as the
\* local file
SameContent ==
  /\ cli.stats.kind = "row"
  /\ cli.stats.checksum = cli.checksum
  /\ cli.stats.size = cli.size

\* C27: the precheck of a readable local file whose GetFileStats was
\* answered gives ProceedWithInit when the server has no row of the name,
\* SuggestExistingEntryDeletion when the row differs in checksum or size,
\* and for the same content Exits for UPLOADED, ProceedWithInit for
\* INITIALIZED, ProceedWithReUpload for FAILED, and for IN_PROGRESS
\* ProceedWithReUpload exactly when updated_at is before now minus the
\* upload timeout, otherwise Exits with an error.
C27_PrecheckFollowsStats ==
  [][(cli.pc = "precheck" /\ cli'.pc # "precheck" /\ cli.exists
      /\ cli.stats.kind # "error")
       => /\ cli.stats.kind = "nil" => cli'.action = "ProceedWithInit"
          /\ (cli.stats.kind = "row" /\ ~SameContent)
               => cli'.action = "SuggestExistingEntryDeletion"
          /\ (SameContent /\ cli.stats.status = FileStatusUploaded)
               => cli'.action = "Exits" /\ "precheckError" \notin cli'.printed
          /\ (SameContent /\ cli.stats.status = FileStatusInitialized)
               => cli'.action = "ProceedWithInit"
          /\ (SameContent /\ cli.stats.status = FileStatusFailed)
               => cli'.action = "ProceedWithReUpload"
          /\ (SameContent /\ cli.stats.status = FileStatusInProgress)
               => IF cli.stats.updatedAt < cli.now - cli.stats.timeout
                  THEN cli'.action = "ProceedWithReUpload"
                  ELSE cli'.action = "Exits" /\ "precheckError" \in cli'.printed]_vars

\* an upload in progress of the same content, last updated exactly the
\* timeout ago, has made the precheck exit with an error
C27_Witness ==
  /\ cli.action = "Exits"
  /\ "precheckError" \in cli.printed
  /\ SameContent
  /\ cli.stats.status = FileStatusInProgress
  /\ cli.stats.updatedAt = cli.now - cli.stats.timeout

\* the lengths of the reads the producer makes of a file, in order
RECURSIVE ReadLens(_, _, _, _)
ReadLens(chunkSize, size, off, buffered) ==
  LET rd == Read(chunkSize, size, off, buffered)
  IN IF rd.n = 0 THEN <<>>
     ELSE <<rd.n>> \o ReadLens(chunkSize, size, rd.off, rd.buffered)

\* the chunks of the local file of the command, as its reader cuts them
FileChunks == ReadLens(cli.chunkSize, cli.size, 0, 0)

\* where the n-th chunk (from 0) of the local file begins
RECURSIVE ChunkStart(_)
ChunkStart(n) == IF n = 0 THEN 0 ELSE ChunkStart(n - 1) + FileChunks[n]

\* the chunk numbers the producer has put into the chunk channel
SentNumbers == {c.id : c \in cli.sent}

AttemptsIn(c, n) == IF n \in DOMAIN c.attempts THEN c.attempts[n] ELSE 0

\* chunk n has failed retries + 1 times
Exhausted(n) == AttemptsIn(cli, n) = cli.retries + 1 /\ n \notin cli.succeeded

\* C29: once a chunk has exhausted its retries the chunk upload use case
\* does not return nil, and when the command has ended the use case has
\* returned an error, the command has called DeleteFile once, whether or
\* not that succeeded, and has printed the error of the upload and no
\* success.
C29_ExhaustedChunkFailsTheUpload ==
  /\ cli.deletes <= 1
  /\ (\E n \in DOMAIN cli.attempts : Exhausted(n))
       => /\ cli.ret # "nil"
          /\ cli.pc = "done"
               => /\ cli.ret = "error"
                  /\ cli.deletes = 1
                  /\ "uploadError" \in cli.printed
                  /\ "success" \notin cli.printed

\* a chunk has exhausted its retries, the delete of the command has failed
\* too, and the command has printed both errors
C29_Witness ==
  /\ cli.pc = "done"
  /\ \E n \in DOMAIN cli.attempts : Exhausted(n)
  /\ cli.deletes = 1
  /\ cli.printed = {"deleteError", "uploadError"}

\* C30: a chunk is attempted at most retries + 1 times and never again
\* after an attempt succeeded; a worker begins an attempt either on a chunk
\* fresh from the channel or after a sleep of (k + 1) seconds that followed
\* the k-th failed attempt (k from 0) of the chunk; and a worker sends its
\* error only when its chunk has failed retries + 1 times.
C30_RetriesAreBoundedWithLinearBackoff ==
  [][/\ \A n \in DOMAIN cli'.attempts :
          /\ AttemptsIn(cli', n) <= cli.retries + 1
          /\ n \in cli.succeeded => AttemptsIn(cli', n) = AttemptsIn(cli, n)
     /\ \A w \in DOMAIN cli.workers :
          LET me == cli.workers[w]
              next == cli'.workers[w]
          IN /\ (me.pc = "attempt" /\ next.pc = "sleep")
                  => /\ next.c = me.c
                     /\ me.c \notin cli'.succeeded
                     /\ next.wait = (AttemptsIn(cli', me.c) - 1) + 1
             /\ (me.pc # "attempt" /\ next.pc = "attempt")
                  => \/ me.pc = "range" /\ AttemptsIn(cli, next.c) = 0
                     \/ /\ me.pc = "sleep"
                        /\ next.c = me.c
                        /\ me.wait = AttemptsIn(cli, me.c)
                        /\ AttemptsIn(cli, me.c) <= cli.retries
     /\ Len(cli'.errorChan) > Len(cli.errorChan)
          => LET n == cli'.errorChan[Len(cli'.errorChan)]
             IN /\ AttemptsIn(cli', n) = cli.retries + 1
                /\ n \notin cli'.succeeded]_vars

\* with two retries a chunk has failed three times, after sleeps of one and
\* two seconds, and another chunk has succeeded at its second attempt
C30_Witness ==
  /\ cli.retries = 2
  /\ \E n \in DOMAIN cli.attempts : Exhausted(n)
  /\ \E n \in cli.succeeded : AttemptsIn(cli, n) = 2

\* the chunk files 0 .. n-1 of a name, one after the other
RECURSIVE OnDisk(_, _)
OnDisk(name, n) ==
  IF n = 0 THEN <<>>
  ELSE OnDisk(name, n - 1)
         \o (IF <<name, n - 1>> \in DOMAIN disk THEN disk[<<name, n - 1>>] ELSE <<>>)

\* C24: whenever the file the command uploads is UPLOADED, after a fresh
\* upload or after a resume with whatever chunk size, its chunk files
\* 0 .. total_chunks-1 one after the other are the bytes of the local file.
C24_UploadedBytesAreTheFile ==
  \A f \in DOMAIN files :
    (files[f].name = ClientFile.name /\ files[f].status = FileStatusUploaded)
      => OnDisk(files[f].name, files[f].total) = ClientContent

\* C31: when the checksum of the local file computed at the init is not
\* the one computed at the precheck, the command ends with an error and has
\* sent no InitUpload request, and nothing on the server has changed.
C31_ChangedFileSendsNoInit ==
  [][(cli.pc = "init" /\ cli'.pc # "init" /\ cli.local # cli.checksum)
       => /\ cli'.pc = "done"
          /\ cli'.inits = 0
          /\ cli'.printed = {"initError"}
          /\ cli'.ppc = "idle"
          /\ UNCHANGED <<db, fs, availableSpace, reqs>>]_vars

\* the command has ended on a local file rewritten after the precheck
C31_Witness ==
  /\ cli.pc = "done"
  /\ cli.local # cli.checksum
  /\ cli.inits = 0
  /\ cli.printed = {"initError"}

\* every worker of the chunk upload use case has left its loop
AllWorkersExited == \A w \in DOMAIN cli.workers : cli.workers[w].pc = "exited"

\* C32: once the chunk upload use case has started, whatever the attempts
\* answer and with one worker or more, it returns and every worker leaves:
\* neither the producer nor a worker stays blocked on the chunk channel or
\* on the error channel.
C32_UploadReturnsAndWorkersExit ==
  (cli.ppc # "idle") ~> (cli.ret # "none" /\ AllWorkersExited)

\* two workers have failed, the use case has returned the error of one of
\* them, and both have left
C32_Witness ==
  /\ cli.concurrency = 2
  /\ cli.ret = "error"
  /\ AllWorkersExited
  /\ Cardinality({n \in DOMAIN cli.attempts : Exhausted(n)}) = 2

\* the chunk numbers a resume has selected and is deleting and resetting
Resetting(r) ==
  IF reqs[r].kind = "init" /\ reqs[r].pc \in {"deleteStray", "reset"}
  THEN {x.num : x \in reqs[r].invalid} ELSE {}

\* request w is inside storageRepository.WriteChunk for chunk n of file f
Writing(w, f, n) ==
  /\ reqs[w].kind = "write" /\ reqs[w].fid = f /\ reqs[w].num = n
  /\ reqs[w].pc \in {"create", "stream"}

\* C33: while a resume deletes the stray bytes of the chunks of its missing
\* set and resets their status, no WriteChunk is writing one of those
\* chunks.
C33_NoWriteOverlapsTheReset ==
  \A r \in Slots : \A w \in Slots :
    \A n \in Resetting(r) : ~Writing(w, reqs[r].fid, n)

\* C34: a chunk row whose status is INITIALIZED has no chunk file on disk.
C34_InitializedChunkHasNoFile ==
  \A c \in DOMAIN chunks :
    (chunks[c].status = FileStatusInitialized /\ chunks[c].parent \in DOMAIN files)
      => <<files[chunks[c].parent].name, chunks[c].num>> \notin DOMAIN disk

\* the row of the client's file is UPLOADED and so is every chunk row of it
UploadedWithAllChunks(name) ==
  /\ GetFileByName(name) # 0
  /\ files[GetFileByName(name)].status = FileStatusUploaded
  /\ \A c \in GetChunksByFileID(GetFileByName(name)) :
       chunks[c].status = FileStatusUploaded

\* C35: when the command has reported success, for a fresh upload or for a
\* resume, the file on the server is UPLOADED with all its chunks UPLOADED.
C35_SuccessMeansUploaded ==
  client.phase = "success" => UploadedWithAllChunks(ClientFile.name)

\* C36: a step of a WriteChunk request addressed to file F, its fail
\* recovery included, changes the status of no chunk row of another file.
C36_WriteTouchesOnlyItsFile ==
  [][\A r \in Slots :
       (reqs[r].kind = "write" /\ reqs'[r] # reqs[r])
         => \A c \in DOMAIN chunks \cap DOMAIN chunks' :
              chunks'[c].status # chunks[c].status => chunks[c].parent = reqs[r].fid]_vars

\* the use case has turned request r down before writing a byte: unknown
\* file, unknown chunk number, or a status that does not allow the write
Rejected(r) ==
  reqs[r].kind = "write" /\ reqs[r].ucErr \in {"NOT_FOUND", "INVALID_INPUT"}

\* C37: whatever the server does for a chunk request that was rejected
\* before any byte was written, every file status, every chunk status and
\* every uploaded_chunks counter stay as they were.
C37_RejectedWriteChangesNothing ==
  [][\A r \in Slots :
       (Rejected(r) /\ reqs'[r] # reqs[r]) => UNCHANGED <<files, chunks>>]_vars

\* the delete request r is in Submit with a chunk task still to hand over
\* and no worker left to receive it: the workers never come back
SubmitBlocked(r) ==
  /\ reqs[r].kind = "delete" /\ reqs[r].pc = "deleteChunks"
  /\ reqs[r].todo # {}
  /\ reqs[r].workers = 0

\* C38: DeleteFile always returns: its submitting loop is never left
\* blocked in Submit, also when the request context is cancelled while
\* chunk deletions are still being submitted.
C38_DeleteNeverBlocksOnSubmit == \A r \in Slots : ~SubmitBlocked(r)

\* C39: a second client with the same content whose precheck finds the
\* file IN_PROGRESS less than the upload timeout after a chunk write of the
\* upload was answered 200 is told to exit, not to re-upload.
C39_ActiveUploadIsNotOrphaned ==
  (cli.pc = "prechecked" /\ cli.status = FileStatusInProgress /\ cli.recent)
    => cli.action = "Exits"

\* the second client is turned away although the row was created and set
\* IN_PROGRESS longer ago than the upload timeout: a chunk has been counted
\* since
C39_Witness ==
  /\ cli.pc = "prechecked" /\ cli.status = FileStatusInProgress /\ cli.recent
  /\ cli.action = "Exits"
  /\ clock.now > UploadTimeoutSecond
  /\ clock.lastDone < clock.now

\* C40: when no request is in flight, every content directory and every
\* chunk file on disk belongs to a name that has a file row.
C40_NoFilesWithoutRow ==
  Quiescent =>
    /\ \A name \in dirs : GetFileByName(name) # 0
    /\ \A path \in DOMAIN disk : GetFileByName(path[1]) # 0

====
